---- MODULE Spec2Model ----
(***************************************************************************)
(* Model of pyRabani's h5RabaniDataGenerator (src/Models/h5_iterator.py)   *)
(* and of the image helpers it shares with src/CNN/CNN_training.py.        *)
(*                                                                         *)
(* A directory is the sequence of its records in os.scandir order (stable  *)
(* while the directory is not modified).  An image is a sequence of rows,  *)
(* a batch a sequence of images, a label matrix a sequence of rows.        *)
(***************************************************************************)
EXTENDS Integers, Sequences, FiniteSets, TLC

\* ------------------------------------------------------------------ bounds
\* directories hold 0..MaxFiles records
MaxFiles == 4
\* the directories on which augmenting generators run
MaxAugFiles == 2
\* the batch_size of a generator that augments
MaxAugBatch == 1
\* batch_size ranges over 1..MaxBatch
MaxBatch == 2
\* every stored image is SrcRes x SrcRes
SrcRes == 2
\* a speckle mask corrupts at most this many pixels
MaxNoisePixels == 1
\* fetches explored beyond the len() of one pass
MaxExtraFetches == 2

\* the sample cap of the class-weight scan of a training set: 50000 in the
\* source, here small enough for a directory within MaxFiles to exceed it
WeightSampleCap == 3

\* numpy's nan, the result of 0/0 in normalise
NaN == 0 - 1
\* the contents of a cell of np.empty that nothing has written yet
Uninit == 0 - 2
\* an attribute the constructor has not assigned yet
Unset == 0 - 3

Levels == 0 .. 2
Pos(res) == (1 .. res) \X (1 .. res)

\* -------------------------------------------------------------- sequences
Range(s) == { s[i] : i \in DOMAIN s }

Min(S) == CHOOSE x \in S : \A y \in S : x <= y
Max(S) == CHOOSE x \in S : \A y \in S : x >= y

\* ------------------------------------------------------------------ images
ConstImage(res, v) == [r \in 1 .. res |-> [c \in 1 .. res |-> v]]

\* np.unique of one image / of a whole batch
ImageLevels(img) == { img[r][c] : r \in DOMAIN img, c \in DOMAIN img }
BatchLevels(batch) == UNION { ImageLevels(batch[i]) : i \in DOMAIN batch }

\* the counts of np.unique(..., return_counts=True)
CountOf(img, v) == Cardinality({ p \in Pos(Len(img)) : img[p[1]][p[2]] = v })

\* The stored image of the i-th record: substrate on half of the pixels, one
\* particle pixel and liquid on the rest, placed differently from one record
\* to the next, so that every record has all three levels.
StoredImage(i) ==
    [r \in 1 .. SrcRes |-> [c \in 1 .. SrcRes |->
        LET q == ((r - 1) * SrcRes + (c - 1) + i) % (SrcRes * SrcRes)
        IN  IF 2 * q < SrcRes * SrcRes THEN 0
            ELSE IF q < SrcRes * SrcRes - 1 THEN 1 ELSE 2]]

\* The categories a stored record may carry: those the caller configures and
\* "none", which the simulator also writes and no caller lists.
output_categories_list == <<"liquid", "hole">>
NumCats == Len(output_categories_list)
RecordCategories == Range(output_categories_list) \cup {"none"}

Record(i, cat) == [id |-> i, category |-> cat, image |-> StoredImage(i)]

Directories ==
    UNION { { [i \in 1 .. n |-> Record(i, cats[i])] : cats \in [1 .. n -> RecordCategories] }
            : n \in 0 .. MaxFiles }

\* ------------------------------------------------------- resize utilities
\* The assertion of power_resize: newsize / image.shape[0] is a whole number.
power_resize_ok(image, newsize) ==
    Len(image) = newsize \/ newsize % Len(image) = 0

\* a resize that repeats the rows and forgets the columns
power_resize_rows_only(image, newsize) ==
    IF Len(image) # newsize
    THEN LET num_tiles == newsize \div Len(image)
         IN  [r \in 1 .. Len(image) * num_tiles |-> image[((r - 1) \div num_tiles) + 1]]
    ELSE image

\* np.repeat along both axes by the integer factor; the image itself when the
\* size already matches.
power_resize(image, newsize) ==
    IF Len(image) # newsize
    THEN LET num_tiles == newsize \div Len(image)
         IN  [r \in 1 .. Len(image) * num_tiles |->
                [c \in 1 .. Len(image[1]) * num_tiles |->
                    image[((r - 1) \div num_tiles) + 1][((c - 1) \div num_tiles) + 1]]]
    ELSE image

\* Models.utils.resize_image, the generator's resize: exact integer-factor
\* block replication.
resize_image(image, newsize) == power_resize(image, newsize)

\* --------------------------------------------------- augmentation steps
\* the draws when replace=False is forgotten
IndexDraws_with_replacement(n) == [1 .. n -> 1 .. n]

\* the draws of np.random.choice(n, size=(n,), replace=False)
IndexDraws(n) ==
    { p \in [1 .. n -> 1 .. n] : \A i, j \in 1 .. n : p[i] = p[j] => i = j }

FlipImage(img, axis) ==
    LET res == Len(img)
    IN  [r \in 1 .. res |-> [c \in 1 .. res |->
            IF axis = 1 THEN img[res + 1 - r][c] ELSE img[r][res + 1 - c]]]

\* flip: augment_inds is the draw of np.random.choice(batch_size, batch_size,
\* replace=False); the images it names are reversed along the axis, in place.
flip(batch_x, axis, augment_inds) ==
    [i \in DOMAIN batch_x |->
        IF i \in Range(augment_inds) THEN FlipImage(batch_x[i], axis) ELSE batch_x[i]]

\* a roll along the rows only
RollImage_rows_only(img, shift) ==
    LET res == Len(img)
    IN  [r \in 1 .. res |-> [c \in 1 .. res |->
            img[((r - 1 - shift[1] + res) % res) + 1][c]]]

\* np.roll(img, shift=(dr, dc), axis=[0, 1])
RollImage(img, shift) ==
    LET res == Len(img)
    IN  [r \in 1 .. res |-> [c \in 1 .. res |->
            img[((r - 1 - shift[1] + res) % res) + 1][((c - 1 - shift[2] + res) % res) + 1]]]

\* circ_shift: rand_shifts[i] is the pair of offsets drawn for image i.
circ_shift(batch_x, rand_shifts) ==
    [i \in DOMAIN batch_x |-> RollImage(batch_x[i], rand_shifts[i])]

ShiftDraws(batch_x, res) == [DOMAIN batch_x -> (0 .. res - 1) \X (0 .. res - 1)]

\* The orders in which np.random.choice(np.unique(batch_x), k, replace=False)
\* can list the k levels of the batch.
LevelOrders(batch_x) ==
    LET u == BatchLevels(batch_x)
        k == Cardinality(u)
    IN  { o \in [1 .. k -> u] : \A i, j \in 1 .. k : o[i] = o[j] => i = j }

\* The loop of randomise_level_index from iteration i on (lines 202-203):
\* arrays holds the arrays in memory, tmp_x and batch_x name two of them, and
\* tmp_x[batch_x == idx] = i writes to the one where it reads the other.
RECURSIVE RelabelLoop(_, _, _, _, _)
RelabelLoop(arrays, tmp_x, batch_x, order, i) ==
    IF i > Len(order)
    THEN arrays
    ELSE RelabelLoop(
             [arrays EXCEPT ![tmp_x] =
                 [n \in DOMAIN @ |-> [r \in DOMAIN @[n] |-> [c \in DOMAIN @[n][r] |->
                     IF arrays[batch_x][n][r][c] = order[i] THEN i - 1 ELSE @[n][r][c]]]]],
             tmp_x, batch_x, order, i + 1)

\* the call: tmp_x is a copy of the argument (line 201)
randomise_level_index_call(batch_x, order) ==
    RelabelLoop([arg |-> batch_x, copy |-> batch_x], "copy", "arg", order, 1)

\* a relabelling that works on the argument itself, without the copy
randomise_level_index_in_place(batch_x, order) ==
    RelabelLoop([arg |-> batch_x, copy |-> batch_x], "arg", "arg", order, 1).arg

\* randomise_level_index: works on a copy; the level listed i-th (from 0)
\* becomes i everywhere in the batch.
randomise_level_index(batch_x, order) ==
    randomise_level_index_call(batch_x, order).copy

\* ------------------------------------------------------------ speckle noise
BatchPos(batch_x) ==
    { <<i, p[1], p[2]>> : i \in DOMAIN batch_x, p \in Pos(Len(batch_x[1])) }

\* The Bernoulli masks, bounded in the number of corrupted pixels.
RECURSIVE SubsetsUpTo(_, _)
SubsetsUpTo(S, k) ==
    IF k = 0 THEN {{}}
    ELSE LET smaller == SubsetsUpTo(S, k - 1)
         IN  smaller \cup { m \cup {x} : m \in smaller, x \in S }

Masks(batch_x) == SubsetsUpTo(BatchPos(batch_x), MaxNoisePixels)

\* speckle_noise with its defaults (num_uniques=None, scaling=True):
\* rand_arr holds np.random.randint(0, num_uniques - 1) for the masked pixels and
\* is scaled by num_uniques - 1; the masked pixels of batch_x are overwritten in
\* place and batch_x itself is returned.
speckle_noise(batch_x, rand_mask, rand_arr) ==
    LET num_uniques == Cardinality(BatchLevels(batch_x))
    IN  IF num_uniques > 1
        THEN [i \in DOMAIN batch_x |->
                [r \in DOMAIN batch_x[i] |-> [c \in DOMAIN batch_x[i][r] |->
                    IF <<i, r, c>> \in rand_mask
                    THEN rand_arr[<<i, r, c>>] * (num_uniques - 1)
                    ELSE batch_x[i][r][c]]]]
        ELSE batch_x

\* the values np.random.randint(0, num_uniques - 1) can take
RandintValues(batch_x) == 0 .. (Cardinality(BatchLevels(batch_x)) - 2)

SpeckleResults(batch_x) ==
    IF Cardinality(BatchLevels(batch_x)) > 1
    THEN UNION { { speckle_noise(batch_x, m, a) : a \in [m -> RandintValues(batch_x)] }
                 : m \in Masks(batch_x) }
    ELSE {batch_x}

\* ------------------------------------------------------------ binarisation
\* normalise: (array - min) / (max - min).  A single-valued array, or one that
\* holds nan, comes out as nan everywhere (0/0).  The quotient is exact for the
\* arrays of at most two levels that _patch_binarisation passes.
normalise(array) ==
    LET vals == ImageLevels(array)
    IN  IF NaN \in vals \/ Cardinality(vals) < 2
        THEN [r \in DOMAIN array |-> [c \in DOMAIN array[r] |-> NaN]]
        ELSE [r \in DOMAIN array |-> [c \in DOMAIN array[r] |->
                (array[r][c] - Min(vals)) \div (Max(vals) - Min(vals))]]

\* the levels whose count is minimal
LeastCommonLevels(image) ==
    { v \in ImageLevels(image) :
        \A w \in ImageLevels(image) : CountOf(image, v) <= CountOf(image, w) }

\* Models.utils.remove_least_common_level: an image of three levels has every
\* pixel of its least-common level replaced by one of the two other levels,
\* drawn pixel by pixel; an image of at most two levels is left as it is.  Any
\* of the levels that tie for least-common may be the one removed.
RemoveLeastCommonResults(image) ==
    IF Cardinality(ImageLevels(image)) <= 2
    THEN {image}
    ELSE UNION { LET where == { p \in Pos(Len(image)) : image[p[1]][p[2]] = least }
                     others == ImageLevels(image) \ {least}
                 IN  { [r \in DOMAIN image |-> [c \in DOMAIN image[r] |->
                          IF <<r, c>> \in where THEN f[<<r, c>>] ELSE image[r][c]]]
                       : f \in [where -> others] }
                 : least \in LeastCommonLevels(image) }

\* every sequence whose i-th element is drawn from sets[i]
RECURSIVE SeqProduct(_)
SeqProduct(sets) ==
    IF sets = <<>> THEN {<<>>}
    ELSE { <<h>> \o t : h \in Head(sets), t \in SeqProduct(Tail(sets)) }

\* _patch_binarisation: image by image, remove_least_common_level and then
\* normalise, in place.
PatchBinarisationResults(batch_x) ==
    SeqProduct([i \in DOMAIN batch_x |->
        { normalise(img) : img \in RemoveLeastCommonResults(batch_x[i]) }])

\* =================================================================== state
VARIABLES
    directory,   \* the records of root_dir in scan order; never modified
    args,        \* the arguments of the constructor call
    caller,      \* what the code around the generator does with it
    pc,          \* "new" before __init__, then "ready", or "failed" when it raised
    self,        \* the generator's attributes
    raised,      \* the exception the last call raised, "" when it returned
    ret,         \* what the last __getitem__ returned
    len_result,  \* what the last __len__ returned
    io,          \* the directory scans and file reads of the last call, in order
    last,        \* the last call made
    fetch_no,    \* __getitem__ calls since __init__ or the last on_epoch_end
    pass_reads,  \* ids of the records delivered since the batch counter was last 0
    fn           \* input and output of an image helper applied on its own

vars == <<directory, args, caller, pc, self, raised, ret, len_result, io, last, fetch_no,
          pass_reads, fn>>

n_files == Len(directory)

\* The combinations of the augmentation switches a caller passes:
\* none (train_autoencoder), the defaults of __init__, and all of them.
NoFlags ==
    [horizontal_flip |-> FALSE, vertical_flip |-> FALSE, x_noise |-> FALSE,
     circshift |-> FALSE, randomise_levels |-> FALSE]

FlagPool ==
    { NoFlags,
      [horizontal_flip |-> TRUE, vertical_flip |-> TRUE, x_noise |-> TRUE,
       circshift |-> TRUE, randomise_levels |-> FALSE],
      [horizontal_flip |-> TRUE, vertical_flip |-> TRUE, x_noise |-> TRUE,
       circshift |-> TRUE, randomise_levels |-> TRUE] }

\* imsize 0 stands for None (both are falsy at `if imsize:`).
ArgPool ==
    [ network_type : {"classifier", "autoencoder", "regressor"},
      batch_size : 1 .. MaxBatch,
      is_train : BOOLEAN,
      imsize : {0, SrcRes},
      flags : FlagPool,
      force_binarisation : BOOLEAN ]

\* A validation caller sets is_validation_set right after constructing, which
\* the callers do for classifiers that are not the training set; idx is the
\* argument of its last fetch.
CallerPool(a) ==
    { [validation |-> v, idx |-> Unset] :
        v \in { w \in BOOLEAN : w => (a.is_train = FALSE /\ a.network_type = "classifier") } }

\* The runs explored by Spec: a classifier (or a network type that is
\* refused) that leaves the images as they are stored, over every directory.
CursorScenarios ==
    { sc \in [directory : Directories, args : ArgPool] :
        /\ sc.args.network_type # "autoencoder"
        /\ sc.args.flags = NoFlags
        /\ sc.args.force_binarisation = FALSE }

\* The runs explored by SpecImages: every generator of ArgPool over the
\* directories of at most MaxAugFiles records, with batches of at most
\* MaxAugBatch records when an augmentation is switched on.
ImageScenarios ==
    { sc \in [directory : Directories, args : ArgPool] :
        /\ Len(sc.directory) <= MaxAugFiles
        /\ sc.args.flags # NoFlags => sc.args.batch_size <= MaxAugBatch }

NoInstance ==
    [ batch_size |-> Unset, network_type |-> "", is_training_set |-> FALSE,
      is_validation_set |-> FALSE, hflip |-> FALSE, vflip |-> FALSE, xnoise |-> FALSE,
      circshift |-> FALSE, randomise_levels |-> FALSE, force_binarisation |-> FALSE,
      class_weights_dict |-> <<>>, file_iterator |-> Unset, image_res |-> Unset,
      batches_counter |-> Unset, x_true |-> <<>>, y_true |-> <<>>,
      trace |-> <<>>, raised |-> "" ]

NoReturn == [x |-> <<>>, y |-> <<>>, clean |-> <<>>, resized |-> <<>>]
NoFn == [op |-> "", in |-> <<>>, out |-> <<>>, raised |-> ""]

\* ------------------------------------------------------------ the cursor
Raise(s, exc) == [s EXCEPT !.raised = exc]

\* a rewind that forgets line 115 and keeps the batch counter
__reset_file_iterator___keeps_counter(s) ==
    [s EXCEPT !.file_iterator = 0,
              !.trace = Append(@, <<"scandir", 0>>)]

\* __reset_file_iterator__: a fresh os.scandir and a zeroed batch counter
__reset_file_iterator__(s) ==
    [s EXCEPT !.file_iterator = 0,
              !.batches_counter = 0,
              !.trace = Append(@, <<"scandir", 0>>)]

\* a length that counts only the entries the cursor has not passed yet
__len___of_remaining(s) ==
    LET n == (n_files + 1) - 1
    IN  (n - (IF s.file_iterator = Unset THEN 0 ELSE s.file_iterator)) \div s.batch_size

\* __len__: `find | wc -l` counts the directory itself and its entries
__len__(s) ==
    LET n == (n_files + 1) - 1
    IN  n \div s.batch_size

\* _get_image_res: open the next entry and take the length of its image
_get_image_res(s) ==
    IF s.file_iterator >= n_files
    THEN Raise(s, "StopIteration")
    ELSE LET entry == directory[s.file_iterator + 1]
         IN  __reset_file_iterator__(
                 [s EXCEPT !.file_iterator = @ + 1,
                           !.trace = Append(@, <<"probe", entry.id>>),
                           !.image_res = Len(entry.image)])

\* a lookup that falls back to the first category instead of raising
IndexOf_or_first(list, v) ==
    IF v \in Range(list) THEN CHOOSE i \in DOMAIN list : list[i] = v ELSE 1

\* list.index, from 1; 0 when the value is not in the list (ValueError)
IndexOf(list, v) ==
    IF v \in Range(list) THEN CHOOSE i \in DOMAIN list : list[i] = v ELSE 0

\* a class-weight loop that counts a record of unknown category as the first
\* category instead of raising
RECURSIVE WeightLoop_tolerant(_, _, _, _)
WeightLoop_tolerant(s, i, length, class_inds) ==
    IF i > length
    THEN [s |-> s, class_inds |-> class_inds]
    ELSE IF s.file_iterator >= n_files
    THEN [s |-> Raise(s, "StopIteration"), class_inds |-> class_inds]
    ELSE LET entry == directory[s.file_iterator + 1]
             s1 == [s EXCEPT !.file_iterator = @ + 1,
                             !.trace = Append(@, <<"weights", entry.id>>)]
             idx_find == IndexOf(output_categories_list, entry.category)
         IN  WeightLoop_tolerant(s1, i + 1, length,
                                 Append(class_inds, IF idx_find = 0 THEN 1 ELSE idx_find))

\* The loop of _get_class_weights over range(length), from iteration i on;
\* class_inds collects the category index of every record opened.
RECURSIVE WeightLoop(_, _, _, _)
WeightLoop(s, i, length, class_inds) ==
    IF i > length
    THEN [s |-> s, class_inds |-> class_inds]
    ELSE IF s.file_iterator >= n_files
    THEN [s |-> Raise(s, "StopIteration"), class_inds |-> class_inds]
    ELSE LET entry == directory[s.file_iterator + 1]
             s1 == [s EXCEPT !.file_iterator = @ + 1,
                             !.trace = Append(@, <<"weights", entry.id>>)]
             idx_find == IndexOf(output_categories_list, entry.category)
         IN  IF idx_find = 0
             THEN [s |-> Raise(s1, "ValueError"), class_inds |-> class_inds]
             ELSE WeightLoop(s1, i + 1, length, Append(class_inds, idx_find))

\* sklearn's compute_class_weight('balanced', classes, y): every class must
\* occur in y; the weight of class c is len(y) / (n_classes * count(c)), kept
\* here as the pair <<len(y), n_classes * count(c)>>.
ClassCount(class_inds, c) == Cardinality({ i \in DOMAIN class_inds : class_inds[i] = c })

compute_class_weight(class_inds) ==
    [c \in 1 .. NumCats |-> <<Len(class_inds), NumCats * ClassCount(class_inds, c)>>]

\* a scan length that takes the cap without the minimum of line 85
weight_scan_length_unclamped(s) ==
    IF s.is_training_set
    THEN WeightSampleCap
    ELSE __len__(s) * s.batch_size

\* the number of records the class-weight scan opens
weight_scan_length(s) ==
    IF s.is_training_set
    THEN Min({__len__(s) * s.batch_size, WeightSampleCap})
    ELSE __len__(s) * s.batch_size

\* a class-weight scan without the rewind of line 101
_get_class_weights_no_rewind(s) ==
    LET s0 == __reset_file_iterator__(s)
        length == weight_scan_length(s0)
    IN  IF s0.is_validation_set
        THEN s0
        ELSE LET done == WeightLoop(s0, 1, length, <<>>)
             IN  IF done.s.raised # ""
                 THEN done.s
                 ELSE IF \E c \in 1 .. NumCats : ClassCount(done.class_inds, c) = 0
                 THEN Raise(done.s, "ValueError")
                 ELSE [done.s EXCEPT !.class_weights_dict =
                                        compute_class_weight(done.class_inds)]

_get_class_weights(s) ==
    LET s0 == __reset_file_iterator__(s)
        length == weight_scan_length(s0)
    IN  IF s0.is_validation_set
        THEN __reset_file_iterator__(s0)
        ELSE LET done == WeightLoop(s0, 1, length, <<>>)
             IN  IF done.s.raised # ""
                 THEN done.s
                 ELSE IF \E c \in 1 .. NumCats : ClassCount(done.class_inds, c) = 0
                 THEN Raise(done.s, "ValueError")
                 ELSE __reset_file_iterator__(
                          [done.s EXCEPT !.class_weights_dict =
                                             compute_class_weight(done.class_inds)])

\* ------------------------------------------------------------ construction
ZeroRows(count, width) == [k \in 1 .. count |-> [j \in 1 .. width |-> 0]]
ZeroImages(count, res) == [k \in 1 .. count |-> ConstImage(res, 0)]

\* the attributes without the assertion of line 54
InitAttributes_unchecked(a) ==
    [NoInstance EXCEPT
       !.batch_size = a.batch_size,
       !.network_type = a.network_type,
       !.is_training_set = a.is_train,
       !.is_validation_set = FALSE,
       !.hflip = a.flags.horizontal_flip,
       !.vflip = a.flags.vertical_flip,
       !.xnoise = a.flags.x_noise,
       !.circshift = a.flags.circshift,
       !.randomise_levels = a.flags.randomise_levels,
       !.force_binarisation = a.force_binarisation]

\* __init__, lines 49-64: the attributes, and the assertion on network_type
InitAttributes(a) ==
    LET s == [NoInstance EXCEPT
                !.batch_size = a.batch_size,
                !.network_type = a.network_type,
                !.is_training_set = a.is_train,
                !.is_validation_set = FALSE,
                !.hflip = a.flags.horizontal_flip,
                !.vflip = a.flags.vertical_flip,
                !.xnoise = a.flags.x_noise,
                !.circshift = a.flags.circshift,
                !.randomise_levels = a.flags.randomise_levels,
                !.force_binarisation = a.force_binarisation]
    IN  IF a.network_type \in {"classifier", "autoencoder"}
        THEN s
        ELSE Raise([s EXCEPT !.network_type = a.network_type], "AssertionError")

\* accumulators that are one batch short
InitAccumulators_one_batch_short(s) ==
    [s EXCEPT !.batches_counter = 0,
              !.x_true = ZeroImages((__len__(s) - 1) * s.batch_size, s.image_res),
              !.y_true = ZeroRows((__len__(s) - 1) * s.batch_size, NumCats)]

\* __init__, lines 76-78: the batch counter and the zeroed accumulators
InitAccumulators(s) ==
    [s EXCEPT !.batches_counter = 0,
              !.x_true = ZeroImages(__len__(s) * s.batch_size, s.image_res),
              !.y_true = ZeroRows(__len__(s) * s.batch_size, NumCats)]

__init__(a) ==
    LET s0 == InitAttributes(a)
        s1 == IF s0.raised # "" THEN s0 ELSE __reset_file_iterator__(s0)
        s2 == IF s1.raised # "" THEN s1
              ELSE IF a.imsize # 0 THEN [s1 EXCEPT !.image_res = a.imsize]
              ELSE _get_image_res(s1)
        s3 == IF s2.raised # "" THEN s2 ELSE _get_class_weights(s2)
    IN  IF s3.raised # "" THEN s3 ELSE InitAccumulators(s3)

\* ------------------------------------------------------------------ fetch
\* arr[start : start + len(rows)] = rows, numpy's slice assignment: the slice
\* is cut at the end of arr; rows of another length than the slice are
\* broadcast when there is one row and refused otherwise.  The trace keeps
\* the array and the start of the slice.
AssignRows(s, field, start, rows) ==
    LET target == { k \in DOMAIN s[field] : start < k /\ k <= start + Len(rows) }
        s1 == [s EXCEPT !.trace = Append(@, <<field, start>>)]
    IN  IF Cardinality(target) = Len(rows)
        THEN [s1 EXCEPT ![field] =
                 [k \in DOMAIN @ |-> IF k \in target THEN rows[k - start] ELSE @[k]]]
        ELSE IF Len(rows) = 1
        THEN [s1 EXCEPT ![field] =
                 [k \in DOMAIN @ |-> IF k \in target THEN rows[1] ELSE @[k]]]
        ELSE Raise(s1, "ValueError")

\* an accumulator write that always goes to the first slot
AccumulateBatch_first_slot(s, batch_x, batch_y) ==
    LET sx == AssignRows(s, "x_true", 0, batch_x)
    IN  IF sx.raised # "" THEN sx ELSE AssignRows(sx, "y_true", 0, batch_y)

\* lines 142-145: both batches, as they are so far, are copied into the
\* accumulators at the slot of the batch counter
AccumulateBatch(s, batch_x, batch_y) ==
    LET slot == s.batches_counter * s.batch_size
        sx == AssignRows(s, "x_true", slot, batch_x)
    IN  IF sx.raised # "" THEN sx ELSE AssignRows(sx, "y_true", slot, batch_y)

\* an iteration whose scan starts over at the end of the directory
ReadRecord_wrapping(s, i, batch_x, batch_y) ==
    IF n_files = 0
    THEN [s |-> Raise(s, "StopIteration"), batch_x |-> batch_x, batch_y |-> batch_y]
    ELSE LET entry == directory[(s.file_iterator % n_files) + 1]
             s1 == [s EXCEPT !.file_iterator = (@ % n_files) + 1,
                             !.trace = Append(@, <<"fetch", entry.id>>)]
             idx_find == IndexOf(output_categories_list, entry.category)
         IN  IF ~power_resize_ok(entry.image, s.image_res)
             THEN [s |-> Raise(s1, "AssertionError"), batch_x |-> batch_x, batch_y |-> batch_y]
             ELSE LET bx == [batch_x EXCEPT ![i] = resize_image(entry.image, s.image_res)]
                  IN  IF idx_find = 0
                      THEN [s |-> Raise(s1, "ValueError"), batch_x |-> bx, batch_y |-> batch_y]
                      ELSE LET by == [batch_y EXCEPT ![i][idx_find] = 1]
                           IN  [s |-> IF s1.is_validation_set
                                      THEN AccumulateBatch(s1, bx, by) ELSE s1,
                                batch_x |-> bx, batch_y |-> by]

\* Iteration i of the loop of __getitem__ (lines 132-145): open the next
\* entry, resize its image into batch_x, set its label bit in batch_y and, for
\* a validation set, copy both batches into the accumulators.
ReadRecord(s, i, batch_x, batch_y) ==
    IF s.file_iterator >= n_files
    THEN [s |-> Raise(s, "StopIteration"), batch_x |-> batch_x, batch_y |-> batch_y]
    ELSE LET entry == directory[s.file_iterator + 1]
             s1 == [s EXCEPT !.file_iterator = @ + 1,
                             !.trace = Append(@, <<"fetch", entry.id>>)]
             idx_find == IndexOf(output_categories_list, entry.category)
         IN  IF ~power_resize_ok(entry.image, s.image_res)
             THEN [s |-> Raise(s1, "AssertionError"), batch_x |-> batch_x, batch_y |-> batch_y]
             ELSE LET bx == [batch_x EXCEPT ![i] = resize_image(entry.image, s.image_res)]
                  IN  IF idx_find = 0
                      THEN [s |-> Raise(s1, "ValueError"), batch_x |-> bx, batch_y |-> batch_y]
                      ELSE LET by == [batch_y EXCEPT ![i][idx_find] = 1]
                           IN  [s |-> IF s1.is_validation_set
                                      THEN AccumulateBatch(s1, bx, by) ELSE s1,
                                batch_x |-> bx, batch_y |-> by]

\* The loop of __getitem__ over range(batch_size), from iteration i on
\* (lines 131-145).
RECURSIVE ReadLoop(_, _, _, _)
ReadLoop(s, i, batch_x, batch_y) ==
    IF i > s.batch_size
    THEN [s |-> s, batch_x |-> batch_x, batch_y |-> batch_y]
    ELSE LET read == ReadRecord(s, i, batch_x, batch_y)
         IN  IF read.s.raised # "" THEN read
             ELSE ReadLoop(read.s, i + 1, read.batch_x, read.batch_y)

\* S itself, once its elements have been counted (a set that has been counted
\* holds every element once)
Distinct(S) == IF Cardinality(S) >= 0 THEN S ELSE {}

\* the batches a step of _augment can make of the batches of S
Flips(S, on, axis, n) ==
    IF on THEN Distinct({ flip(b, axis, inds) : b \in S, inds \in IndexDraws(n) }) ELSE S
Shifts(S, on, res) ==
    IF on THEN Distinct(UNION { { circ_shift(b, sh) : sh \in ShiftDraws(b, res) } : b \in S })
    ELSE S
Relabels(S, on) ==
    IF on
    THEN Distinct(UNION { { randomise_level_index(b, o) : o \in LevelOrders(b) } : b \in S })
    ELSE S
Speckles(S, on) ==
    IF on THEN Distinct(UNION { SpeckleResults(b) : b \in S }) ELSE S

\* an augmentation that adds the speckle noise before the levels are randomised
_augment_noise_first(s, batch_x) ==
    LET b1 == Flips({batch_x}, s.vflip, 1, s.batch_size)
        b2 == Flips(b1, s.hflip, 2, s.batch_size)
        b3 == Shifts(b2, s.circshift, s.image_res)
        b4 == Speckles(b3, s.xnoise)
    IN  Relabels(b4, s.randomise_levels)

\* _augment: vertical flip, horizontal flip, circular shift, level
\* randomisation, speckle noise, each if enabled; the set of batches it can
\* return.
_augment(s, batch_x) ==
    LET b1 == Flips({batch_x}, s.vflip, 1, s.batch_size)
        b2 == Flips(b1, s.hflip, 2, s.batch_size)
        b3 == Shifts(b2, s.circshift, s.image_res)
        b4 == Relabels(b3, s.randomise_levels)
    IN  Speckles(b4, s.xnoise)

\* _patch_binarisation over every batch of a set
_patch_binarisation(S) == Distinct(UNION { PatchBinarisationResults(b) : b \in S })

\* a count that rewinds one batch late: > for the >= of line 154
CountBatch_late_rewind(s) ==
    LET s1 == [s EXCEPT !.batches_counter = @ + 1]
    IN  IF s1.batches_counter > __len__(s1) /\ s1.is_training_set = FALSE
        THEN __reset_file_iterator__(s1)
        ELSE s1

\* lines 153-155: count the batch; past the last batch of a set that is not
\* the training set, rewind
CountBatch(s) ==
    LET s1 == [s EXCEPT !.batches_counter = @ + 1]
    IN  IF s1.batches_counter >= __len__(s1) /\ s1.is_training_set = FALSE
        THEN __reset_file_iterator__(s1)
        ELSE s1

\* a return that writes the labels whether or not the set is a validation set
Returns_unguarded(s, resized, batch_x, batch_y) ==
    IF s.network_type = "classifier"
    THEN { [s |-> AssignRows(s, "y_true", s.batches_counter * s.batch_size, batch_y),
            ret |-> [x |-> batch_x, y |-> batch_y, clean |-> batch_x,
                     resized |-> resized]] }
    ELSE IF s.network_type = "autoencoder"
    THEN { [s |-> [s EXCEPT !.x_true = xt],
            ret |-> [x |-> corrupted, y |-> corrupted, clean |-> batch_x,
                     resized |-> resized]]
           : corrupted \in SpeckleResults(batch_x),
             xt \in PatchBinarisationResults(s.x_true) }
    ELSE { [s |-> s, ret |-> NoReturn] }

\* lines 157-168: what is returned.  In classifier mode the labels are written
\* to y_true once more, at the slot of the batch counter as it is now.  In
\* autoencoder mode speckle_noise corrupts batch_x in place and returns that
\* same array, so both elements of the pair are the corrupted batch; x_true is
\* binarised as a whole.
Returns(s, resized, batch_x, batch_y) ==
    IF s.network_type = "classifier"
    THEN LET s1 == IF s.is_validation_set
                   THEN AssignRows(s, "y_true", s.batches_counter * s.batch_size, batch_y)
                   ELSE s
         IN  { [s |-> s1,
                ret |-> [x |-> batch_x, y |-> batch_y, clean |-> batch_x,
                         resized |-> resized]] }
    ELSE IF s.network_type = "autoencoder"
    THEN { LET noisy_x == corrupted        \* line 164: what speckle_noise returns,
               batch_x_now == corrupted    \* which is batch_x, overwritten at line 231
           IN  [s |-> IF s.is_validation_set THEN [s EXCEPT !.x_true = xt] ELSE s,
                ret |-> [x |-> noisy_x, y |-> batch_x_now, clean |-> batch_x,
                         resized |-> resized]]
           : corrupted \in SpeckleResults(batch_x),
             xt \in IF s.is_validation_set THEN PatchBinarisationResults(s.x_true)
                    ELSE {<<>>} }
    ELSE { [s |-> s, ret |-> NoReturn] }

\* a fetch that first moves the scan to batch idx
__getitem___seeking(s, idx) ==
    LET empty_x == [i \in 1 .. s.batch_size |-> ConstImage(s.image_res, Uninit)]
        zero_y == ZeroRows(s.batch_size, NumCats)
        read == ReadLoop([s EXCEPT !.file_iterator = idx * s.batch_size], 1, empty_x, zero_y)
    IN  IF read.s.raised # ""
        THEN { [s |-> read.s, ret |-> NoReturn] }
        ELSE LET augmented == IF read.s.is_training_set
                              THEN _augment(read.s, read.batch_x)
                              ELSE {read.batch_x}
                 patched == IF read.s.force_binarisation
                            THEN _patch_binarisation(augmented)
                            ELSE augmented
                 counted == CountBatch(read.s)
             IN  Distinct(UNION { Returns(counted, read.batch_x, b, read.batch_y)
                                  : b \in patched })

\* a fetch whose label matrix is allocated with np.empty instead of np.zeros
__getitem___empty_labels(s, idx) ==
    LET empty_x == [i \in 1 .. s.batch_size |-> ConstImage(s.image_res, Uninit)]
        empty_y == [i \in 1 .. s.batch_size |-> [j \in 1 .. NumCats |-> Uninit]]
        read == ReadLoop(s, 1, empty_x, empty_y)
    IN  IF read.s.raised # ""
        THEN { [s |-> read.s, ret |-> NoReturn] }
        ELSE LET augmented == IF read.s.is_training_set
                              THEN _augment(read.s, read.batch_x)
                              ELSE {read.batch_x}
                 patched == IF read.s.force_binarisation
                            THEN _patch_binarisation(augmented)
                            ELSE augmented
                 counted == CountBatch(read.s)
             IN  Distinct(UNION { Returns(counted, read.batch_x, b, read.batch_y)
                                  : b \in patched })

\* __getitem__: every outcome of one call, as the attributes it leaves and the
\* pair it returns.  idx is not used.
__getitem__(s, idx) ==
    LET empty_x == [i \in 1 .. s.batch_size |-> ConstImage(s.image_res, Uninit)]
        zero_y == ZeroRows(s.batch_size, NumCats)
        read == ReadLoop(s, 1, empty_x, zero_y)
    IN  IF read.s.raised # ""
        THEN { [s |-> read.s, ret |-> NoReturn] }
        ELSE LET augmented == IF read.s.is_training_set
                              THEN _augment(read.s, read.batch_x)
                              ELSE {read.batch_x}
                 patched == IF read.s.force_binarisation
                            THEN _patch_binarisation(augmented)
                            ELSE augmented
                 counted == CountBatch(read.s)
             IN  Distinct(UNION { Returns(counted, read.batch_x, b, read.batch_y)
                                  : b \in patched })

\* an epoch end that also clears the accumulators
on_epoch_end_clearing(s) ==
    LET s1 == __reset_file_iterator__(s)
    IN  [s1 EXCEPT !.x_true = ZeroImages(Len(@), s1.image_res),
                   !.y_true = ZeroRows(Len(@), NumCats)]

\* on_epoch_end
on_epoch_end(s) == __reset_file_iterator__(s)

\* ================================================================= actions
InitOver(scenarios) ==
    /\ \E sc \in scenarios :
         /\ directory = sc.directory
         /\ args = sc.args
         /\ caller \in CallerPool(sc.args)
    /\ pc = "new"
    /\ self = NoInstance
    /\ raised = ""
    /\ ret = NoReturn
    /\ len_result = Unset
    /\ io = <<>>
    /\ last = ""
    /\ fetch_no = 0
    /\ pass_reads = <<>>
    /\ fn = NoFn

Init == InitOver(CursorScenarios)
InitImages == InitOver(ImageScenarios)

Settle(s) == [s EXCEPT !.trace = <<>>, !.raised = ""]

\* h5RabaniDataGenerator(...)
Construct ==
    /\ pc = "new"
    /\ LET s == __init__(args)
       IN  /\ pc' = IF s.raised = "" THEN "ready" ELSE "failed"
           /\ self' = Settle(s)
           /\ raised' = s.raised
           /\ io' = s.trace
    /\ last' = "__init__"
    /\ UNCHANGED <<directory, args, caller, ret, len_result, fetch_no, pass_reads, fn>>

FetchedIds(trace) == [k \in DOMAIN trace |-> trace[k][2]]

\* the values of idx a caller passes to __getitem__
Indices == 0 .. 1

\* generator[idx]
Fetch ==
    /\ pc = "ready"
    /\ caller.validation => self.is_validation_set
    /\ fetch_no < __len__(self) + MaxExtraFetches
    /\ \E idx \in Indices :
         \E r \in __getitem__(self, idx) :
            /\ caller' = [caller EXCEPT !.idx = idx]
            /\ self' = Settle(r.s)
            /\ raised' = r.s.raised
            /\ ret' = IF r.s.raised = "" THEN r.ret ELSE NoReturn
            /\ io' = r.s.trace
            /\ pass_reads' =
                 IF r.s.raised # "" THEN pass_reads
                 ELSE (IF self.batches_counter = 0 THEN <<>> ELSE pass_reads)
                      \o FetchedIds(SelectSeq(r.s.trace, LAMBDA e : e[1] = "fetch"))
    /\ last' = "__getitem__"
    /\ fetch_no' = fetch_no + 1
    /\ len_result' = Unset
    /\ UNCHANGED <<directory, args, pc, fn>>

\* len(generator)
LenCall ==
    /\ pc = "ready"
    /\ len_result' = __len__(self)
    /\ last' = "__len__"
    /\ raised' = ""
    /\ io' = <<>>
    /\ ret' = NoReturn
    /\ UNCHANGED <<directory, args, caller, pc, self, fetch_no, pass_reads, fn>>

\* generator.on_epoch_end()
OnEpochEnd ==
    /\ pc = "ready"
    /\ LET s == on_epoch_end(self)
       IN  /\ self' = Settle(s)
           /\ io' = s.trace
    /\ last' = "on_epoch_end"
    /\ raised' = ""
    /\ ret' = NoReturn
    /\ len_result' = Unset
    /\ fetch_no' = 0
    /\ pass_reads' = <<>>
    /\ UNCHANGED <<directory, args, caller, pc, fn>>

\* generator.is_validation_set = True, right after constructing
SetValidation ==
    /\ pc = "ready"
    /\ last = "__init__"
    /\ caller.validation
    /\ self' = [self EXCEPT !.is_validation_set = TRUE]
    /\ last' = "is_validation_set"
    /\ io' = <<>>
    /\ UNCHANGED <<directory, args, caller, pc, raised, ret, len_result, fetch_no, pass_reads, fn>>

Next == Construct \/ Fetch \/ LenCall \/ OnEpochEnd \/ SetValidation

Spec == Init /\ [][Next]_vars
SpecImages == InitImages /\ [][Next]_vars

\* ============================================ CNN_training: the older patcher
\* _patch_binarisation of CNN/CNN_training.py, applied on its own to a batch.
PatchRes == 3
PatchBatch == 1

PatchImages == [1 .. PatchRes -> [1 .. PatchRes -> Levels]]
PatchBatches == [1 .. PatchBatch -> PatchImages]

\* np.unique: the levels of the image in ascending order
RECURSIVE SortedSeq(_)
SortedSeq(S) == IF S = {} THEN <<>> ELSE <<Min(S)>> \o SortedSeq(S \ {Min(S)})

\* np.argmin: the first index of the smallest count
argmin(counts) ==
    CHOOSE i \in DOMAIN counts :
        /\ \A j \in DOMAIN counts : counts[i] <= counts[j]
        /\ \A j \in 1 .. i - 1 : counts[j] > counts[i]

\* np.delete(arr, ind)
delete(arr, ind) ==
    [k \in 1 .. Len(arr) - 1 |-> IF k < ind THEN arr[k] ELSE arr[k + 1]]

\* np.argwhere(img == v): the places of v, row by row
argwhere(img, v) ==
    LET res == Len(img)
        cells == [q \in 1 .. res * res |-> <<((q - 1) \div res) + 1, ((q - 1) % res) + 1>>]
    IN  SelectSeq(cells, LAMBDA p : img[p[1]][p[2]] = v)

\* line 244: img[replacement_inds[:, 0], replacement_inds[:, 0]] = replacement_vals.
\* Both subscripts are the row of the place, so the k-th value goes to the
\* diagonal pixel of that row; a row named twice keeps the later value.
RECURSIVE DiagonalAssign(_, _, _, _)
DiagonalAssign(img, replacement_inds, replacement_vals, k) ==
    IF k > Len(replacement_inds)
    THEN img
    ELSE LET row == replacement_inds[k][1]
         IN  DiagonalAssign([img EXCEPT ![row][row] = replacement_vals[k]],
                            replacement_inds, replacement_vals, k + 1)

\* lines 230-244 for one image: every image the draw of np.random.choice can
\* leave, or none when counts[other_inds] is out of bounds (IndexError: the
\* image has fewer than the three levels of level_inds).
CNN_patch_image(img) ==
    LET level_vals == SortedSeq(ImageLevels(img))
        counts == [k \in DOMAIN level_vals |-> CountOf(img, level_vals[k])]
        level_inds == <<1, 2, 3>>
        least_common_ind == argmin(counts)
        least_common_val == level_vals[least_common_ind]
        other_vals == delete(level_vals, least_common_ind)
        other_inds == delete(level_inds, least_common_ind)
        replacement_inds == argwhere(img, least_common_val)
    IN  IF \E k \in DOMAIN other_inds : other_inds[k] > Len(counts)
        THEN {}
        ELSE { DiagonalAssign(img, replacement_inds, replacement_vals, 1)
               : replacement_vals \in [1 .. Len(replacement_inds) -> Range(other_vals)] }

\* lines 229-246: the loop over the batch
CNN_patch_binarisation(batch_x) ==
    SeqProduct([i \in DOMAIN batch_x |-> CNN_patch_image(batch_x[i])])

InitPatch ==
    /\ directory = <<>>
    /\ args = <<>>
    /\ caller = <<>>
    /\ pc = "helper"
    /\ self = NoInstance
    /\ raised = ""
    /\ ret = NoReturn
    /\ len_result = Unset
    /\ io = <<>>
    /\ last = ""
    /\ fetch_no = 0
    /\ pass_reads = <<>>
    /\ \E batch_x \in PatchBatches : fn = [NoFn EXCEPT !.in = batch_x]

PatchReturns ==
    /\ pc = "helper" /\ fn.op = ""
    /\ CNN_patch_binarisation(fn.in) # {}
    /\ \E out \in CNN_patch_binarisation(fn.in) :
         fn' = [fn EXCEPT !.op = "_patch_binarisation", !.out = out]
    /\ UNCHANGED <<directory, args, caller, pc, self, raised, ret, len_result, io, last,
                   fetch_no, pass_reads>>

PatchRaises ==
    /\ pc = "helper" /\ fn.op = ""
    /\ CNN_patch_binarisation(fn.in) = {}
    /\ fn' = [fn EXCEPT !.op = "_patch_binarisation", !.raised = "IndexError"]
    /\ UNCHANGED <<directory, args, caller, pc, self, raised, ret, len_result, io, last,
                   fetch_no, pass_reads>>

NextPatch == PatchReturns \/ PatchRaises

SpecPatch == InitPatch /\ [][NextPatch]_vars

\* ======================================== the image helpers on their own
\* No generator is involved when a helper is applied on its own.
NoGenerator ==
    /\ directory = <<>>
    /\ args = <<>>
    /\ caller = <<>>
    /\ pc = "helper"
    /\ self = NoInstance
    /\ raised = ""
    /\ ret = NoReturn
    /\ len_result = Unset
    /\ io = <<>>
    /\ last = ""
    /\ fetch_no = 0
    /\ pass_reads = <<>>

GeneratorUnchanged ==
    UNCHANGED <<directory, args, caller, pc, self, raised, ret, len_result, io, last,
                fetch_no, pass_reads>>

\* square images of side res over the three levels
SquareImages(res) == [1 .. res -> [1 .. res -> Levels]]

\* --------------------------------------------- plot_rabani: power_resize
\* source images have a side of 1..MaxResizeSrc
MaxResizeSrc == 2
\* requested sizes range over -1..MaxNewSize
MaxNewSize == 4

\* np.repeat refuses a negative number of repeats
np_repeat_ok(repeats) == repeats >= 0

InitResize ==
    /\ NoGenerator
    /\ \E res \in 1 .. MaxResizeSrc :
         \E image \in SquareImages(res), newsize \in -1 .. MaxNewSize :
            fn = [NoFn EXCEPT !.in = [image |-> image, newsize |-> newsize]]

ResizeReturns ==
    /\ pc = "helper" /\ fn.op = ""
    /\ power_resize_ok(fn.in.image, fn.in.newsize)
    /\ np_repeat_ok(fn.in.newsize \div Len(fn.in.image))
    /\ fn' = [fn EXCEPT !.op = "power_resize",
                        !.out = power_resize(fn.in.image, fn.in.newsize)]
    /\ GeneratorUnchanged

ResizeRaises ==
    /\ pc = "helper" /\ fn.op = ""
    /\ \/ /\ ~power_resize_ok(fn.in.image, fn.in.newsize)
          /\ fn' = [fn EXCEPT !.op = "power_resize", !.raised = "AssertionError"]
       \/ /\ power_resize_ok(fn.in.image, fn.in.newsize)
          /\ ~np_repeat_ok(fn.in.newsize \div Len(fn.in.image))
          /\ fn' = [fn EXCEPT !.op = "power_resize", !.raised = "ValueError"]
    /\ GeneratorUnchanged

NextResize == ResizeReturns \/ ResizeRaises

SpecResize == InitResize /\ [][NextResize]_vars

\* ------------------------------------------- h5_iterator: flip, circ_shift
\* The batches the augmentation steps are applied to on their own: up to
\* MaxBatch images taken from the stored images and the single-valued images.
HelperImages ==
    { StoredImage(i) : i \in 1 .. SrcRes * SrcRes } \cup { ConstImage(SrcRes, v) : v \in Levels }
HelperBatches == UNION { [1 .. n -> HelperImages] : n \in 1 .. MaxBatch }

\* flip is applied twice along one axis; draws lists the augment_inds drawn.
InitFlip ==
    /\ NoGenerator
    /\ \E batch_x \in HelperBatches, axis \in {1, 2} :
         fn = [op |-> "", in |-> [batch_x |-> batch_x, axis |-> axis],
               draws |-> <<>>, out |-> batch_x, raised |-> ""]

FlipCall ==
    /\ pc = "helper" /\ fn.op \in {"", "flip"} /\ Len(fn.draws) < 2
    /\ \E augment_inds \in IndexDraws(Len(fn.out)) :
         fn' = [fn EXCEPT !.op = "flip",
                          !.draws = Append(@, augment_inds),
                          !.out = flip(fn.out, fn.in.axis, augment_inds)]
    /\ GeneratorUnchanged

NextFlip == FlipCall

SpecFlip == InitFlip /\ [][NextFlip]_vars

\* circ_shift is applied once; draws holds the rand_shifts drawn.
InitShift ==
    /\ NoGenerator
    /\ \E batch_x \in HelperBatches :
         fn = [op |-> "", in |-> [batch_x |-> batch_x],
               draws |-> <<>>, out |-> <<>>, raised |-> ""]

ShiftCall ==
    /\ pc = "helper" /\ fn.op = ""
    /\ \E rand_shifts \in ShiftDraws(fn.in.batch_x, SrcRes) :
         fn' = [fn EXCEPT !.op = "circ_shift",
                          !.draws = rand_shifts,
                          !.out = circ_shift(fn.in.batch_x, rand_shifts)]
    /\ GeneratorUnchanged

NextShift == ShiftCall

SpecShift == InitShift /\ [][NextShift]_vars

\* ------------------------------------------ image_stats: calculate_stats
\* the default level numbers of the signature
substrate_num == 0
liquid_num == 1
nano_num == 2

\* images measured pixel count by pixel count have a side of 1..MaxStatRes
MaxStatRes == 10
\* the side of the images on which only substrate and particle counts vary
LargeRes == 64
\* the first region has one component and at most MaxHoles holes
MaxHoles == 3

\* What calculate_stats reads off img: sums[v + 1] is np.sum(img == v) and
\* euler_number is region["euler_number"] of the first region of
\* regionprops((img != 0) + 1), which is never empty.
\* scipy.stats.mode: the smallest of the most frequent values
mode(sums) ==
    CHOOSE v \in Levels :
        /\ \A w \in Levels : sums[w + 1] <= sums[v + 1]
        /\ \A w \in Levels : w < v => sums[w + 1] < sums[v + 1]

\* The first region is the substrate when the image has substrate and the
\* whole image otherwise.  A region of one component with h holes needs room:
\* 3h + 1 pixels of its own, h pixels of the other kind and a side of 2h + 1.
EulerNumbers(res, sums) ==
    LET region == IF sums[substrate_num + 1] > 0 THEN sums[substrate_num + 1] ELSE res * res
        others == res * res - region
    IN  { 1 - h : h \in { k \in 0 .. MaxHoles :
                            k = 0 \/ (region >= 3 * k + 1 /\ others >= k /\ res >= 2 * k + 1) } }

\* the measurement of an image of side res with n0 substrate and n2 particle
\* pixels, the rest being liquid
Measurement(res, n0, n2, e) ==
    [image_res |-> res, sums |-> <<n0, (res * res - n0) - n2, n2>>, euler_number |-> e]

\* x / y of numpy for integers x and y, compared with the decimal t[1] / t[2]
\* (t[2] > 0): a zero y gives inf, -inf or nan (a RuntimeWarning, no
\* exception), and every comparison with nan is False.  For y > 0 the
\* floating-point comparison agrees with the exact one.
QuotientGE(x, y, t) == IF y > 0 THEN x * t[2] >= t[1] * y ELSE x > 0
QuotientLE(x, y, t) == IF y > 0 THEN x * t[2] <= t[1] * y ELSE x < 0
QuotientLT(x, y, t) == IF y > 0 THEN x * t[2] < t[1] * y ELSE x < 0

\* a hole threshold that must be exceeded
LiquidBranch_strict(m) ==
    IF ~QuotientLE(m.sums[substrate_num + 1], m.image_res * m.image_res, <<2, 100>>)
    THEN "hole"
    ELSE "liquid"

\* lines 17-22: the dominant value is the liquid
LiquidBranch(m) ==
    IF QuotientGE(m.sums[substrate_num + 1], m.image_res * m.image_res, <<2, 100>>)
    THEN "hole"
    ELSE "liquid"

\* bands without the gap between labyrinth and cellular
EulerBranch_gap_closed(m) ==
    LET e == m.euler_number
        nano == m.sums[nano_num + 1]
    IN  IF QuotientGE(e, nano, <<0 - 25, 100000>>) THEN "cellular"
        ELSE IF QuotientGE(e, nano, <<0 - 1, 100>>) /\ QuotientLT(e, nano, <<0 - 25, 100000>>)
        THEN "labyrinth"
        ELSE IF QuotientLE(e, nano, <<0 - 3, 100>>) THEN "island"
        ELSE "none"

\* lines 23-33: the bands of euler_number / np.sum(img == nano_num)
EulerBranch(m) ==
    LET e == m.euler_number
        nano == m.sums[nano_num + 1]
    IN  IF QuotientGE(e, nano, <<0 - 25, 100000>>) THEN "cellular"
        ELSE IF QuotientGE(e, nano, <<0 - 1, 100>>) /\ QuotientLT(e, nano, <<0 - 1, 1000>>)
        THEN "labyrinth"
        ELSE IF QuotientLE(e, nano, <<0 - 3, 100>>) THEN "island"
        ELSE "none"

\* calculate_stats: the category it returns beside the region
calculate_stats(m) ==
    IF mode(m.sums) = liquid_num THEN LiquidBranch(m) ELSE EulerBranch(m)

InitStats ==
    /\ NoGenerator
    /\ \/ \E res \in 1 .. MaxStatRes :
            \E n0 \in 0 .. res * res :
               \E n2 \in 0 .. res * res - n0 :
                  \E e \in EulerNumbers(res, <<n0, (res * res - n0) - n2, n2>>) :
                     fn = [NoFn EXCEPT !.in = Measurement(res, n0, n2, e)]
       \/ \E n2 \in 0 .. LargeRes * LargeRes :
            \E e \in EulerNumbers(LargeRes, <<LargeRes * LargeRes - n2, 0, n2>>) :
               fn = [NoFn EXCEPT !.in = Measurement(LargeRes, LargeRes * LargeRes - n2, n2, e)]

StatsReturns ==
    /\ pc = "helper" /\ fn.op = ""
    /\ fn' = [fn EXCEPT !.op = "calculate_stats", !.out = calculate_stats(fn.in)]
    /\ GeneratorUnchanged

NextStats == StatsReturns

SpecStats == InitStats /\ [][NextStats]_vars

\* ------------------------------ image_stats: calculate_normalised_stats
\* the side of the images whose descriptors are taken
DescRes == 3

\* The images handed to calculate_normalised_stats: every image over two of
\* the levels, the single-valued ones among them.
TwoLevelImages ==
    UNION { [1 .. DescRes -> [1 .. DescRes -> {a, b}]] : a, b \in Levels }

\* the pixels of the image within the 3x3 square around p
Square3(img, p) ==
    { q \in Pos(Len(img)) :
        /\ q[1] - p[1] \in {0 - 1, 0, 1}
        /\ q[2] - p[2] \in {0 - 1, 0, 1} }

\* skimage.morphology dilation and erosion with square(3); at the border the
\* square is cut to the image
dilation(img) ==
    [r \in DOMAIN img |-> [c \in DOMAIN img |->
        Max({ img[q[1]][q[2]] : q \in Square3(img, <<r, c>>) })]]
erosion(img) ==
    [r \in DOMAIN img |-> [c \in DOMAIN img |->
        Min({ img[q[1]][q[2]] : q \in Square3(img, <<r, c>>) })]]
closing(img) == erosion(dilation(img))

\* np.abs(1 - img)
abs_one_minus(img) ==
    [r \in DOMAIN img |-> [c \in DOMAIN img |->
        IF img[r][c] <= 1 THEN 1 - img[r][c] ELSE img[r][c] - 1]]

\* skimage.measure.label: pixels are connected when they are neighbours, the
\* diagonal ones included, and have the same value; 0 is the background.
RECURSIVE Connected(_, _, _)
Connected(S, cells, img) ==
    LET next == S \cup { q \in cells :
                           \E p \in S : /\ q \in Square3(img, p)
                                        /\ img[q[1]][q[2]] = img[p[1]][p[2]] }
    IN  IF next = S THEN S ELSE Connected(next, cells, img)

RECURSIVE CountComponents(_, _)
CountComponents(cells, img) ==
    IF cells = {} THEN 0
    ELSE LET p == CHOOSE p \in cells : TRUE
         IN  1 + CountComponents(cells \ Connected({p}, cells, img), img)

Foreground(img) == { p \in Pos(Len(img)) : img[p[1]][p[2]] # 0 }

\* label(img).max(): the number of components
label_max(img) == CountComponents(Foreground(img), img)

\* regionprops(label_image) is an empty list when no pixel is labelled
regionprops_empty(label_image) == Foreground(label_image) = {}

\* a descriptor whose perimeter is taken from the closed image itself
calculate_normalised_stats_own_perimeter(img) ==
    IF Cardinality(ImageLevels(img)) # 2
    THEN [raised |-> "AssertionError", out |-> <<>>]
    ELSE LET img_close == closing(img)
             img_close_inv == abs_one_minus(img_close)
             H0 == label_max(img_close)
             H1 == label_max(img_close_inv)
             tot_particle_area == IF H0 > H1 THEN Cardinality(Foreground(img_close))
                                  ELSE Cardinality(Foreground(img_close_inv))
             divisor == IF H0 > H1 THEN H0 ELSE H1
         IN  IF regionprops_empty(img_close)
             THEN [raised |-> "IndexError", out |-> <<>>]
             ELSE [raised |-> "",
                   out |-> [SIA |-> <<tot_particle_area, DescRes * DescRes>>,
                            SIP |-> <<"perimeter", H0, tot_particle_area, divisor>>,
                            SIE |-> <<H0, H1>>]]

\* calculate_normalised_stats.  The quotients are kept as pairs <<numerator,
\* denominator>>; SIP is perimeter / (H0 * sqrt(tot_particle_area / divisor))
\* with the perimeter of the first region of img_close_inv left as it is.
calculate_normalised_stats(img) ==
    IF Cardinality(ImageLevels(img)) # 2
    THEN [raised |-> "AssertionError", out |-> <<>>]
    ELSE LET img_close == closing(img)
             img_close_inv == abs_one_minus(img_close)
             H0 == label_max(img_close)
             H1 == label_max(img_close_inv)
             tot_particle_area == IF H0 > H1 THEN Cardinality(Foreground(img_close))
                                  ELSE Cardinality(Foreground(img_close_inv))
             divisor == IF H0 > H1 THEN H0 ELSE H1
         IN  IF regionprops_empty(img_close_inv)
             THEN [raised |-> "IndexError", out |-> <<>>]
             ELSE [raised |-> "",
                   out |-> [SIA |-> <<tot_particle_area, DescRes * DescRes>>,
                            SIP |-> <<"perimeter", H0, tot_particle_area, divisor>>,
                            SIE |-> <<H0, H1>>]]

InitDescriptors ==
    /\ NoGenerator
    /\ \E img \in TwoLevelImages : fn = [NoFn EXCEPT !.in = img]

DescriptorsReturn ==
    /\ pc = "helper" /\ fn.op = ""
    /\ calculate_normalised_stats(fn.in).raised = ""
    /\ fn' = [fn EXCEPT !.op = "calculate_normalised_stats",
                        !.out = calculate_normalised_stats(fn.in).out]
    /\ GeneratorUnchanged

DescriptorsRaise ==
    /\ pc = "helper" /\ fn.op = ""
    /\ calculate_normalised_stats(fn.in).raised # ""
    /\ fn' = [fn EXCEPT !.op = "calculate_normalised_stats",
                        !.raised = calculate_normalised_stats(fn.in).raised]
    /\ GeneratorUnchanged

NextDescriptors == DescriptorsReturn \/ DescriptorsRaise

SpecDescriptors == InitDescriptors /\ [][NextDescriptors]_vars

\* ------------------------------ image_stats: the region of calculate_stats
\* the side of the images whose first region is taken
RegionRes == 3

\* (img != 0) + 1: label 1 on the zero pixels, label 2 on the others
label_of_nonzero(img) ==
    [r \in DOMAIN img |-> [c \in DOMAIN img |-> IF img[r][c] # 0 THEN 2 ELSE 1]]

\* regionprops(label_image)[0]: the pixels of the smallest label present
\* (regionprops lists the regions by ascending label)
first_region(label_image) ==
    LET smallest == Min(ImageLevels(label_image) \ {0})
    IN  { p \in Pos(Len(label_image)) : label_image[p[1]][p[2]] = smallest }

\* the bounding box of a region, in which its properties are computed
BoundingBox(region) ==
    { p \in Pos(RegionRes) :
        /\ \E q \in region : q[1] <= p[1]
        /\ \E q \in region : q[1] >= p[1]
        /\ \E q \in region : q[2] <= p[2]
        /\ \E q \in region : q[2] >= p[2] }

\* the pixels of the box from which one step leaves the box
BoxBorder(box) ==
    { p \in box : \E d \in {<<0 - 1, 0>>, <<1, 0>>, <<0, 0 - 1>>, <<0, 1>>} :
                     <<p[1] + d[1], p[2] + d[2]>> \notin box }

\* neighbours: connectivity 1 is by the edges, 2 by the edges and the corners
Adjacent(p, q, connectivity) ==
    /\ p # q
    /\ p[1] - q[1] \in {0 - 1, 0, 1}
    /\ p[2] - q[2] \in {0 - 1, 0, 1}
    /\ connectivity = 1 => (p[1] = q[1] \/ p[2] = q[2])

RECURSIVE Reach(_, _, _)
Reach(S, cells, connectivity) ==
    LET next == S \cup { q \in cells : \E p \in S : Adjacent(p, q, connectivity) }
    IN  IF next = S THEN S ELSE Reach(next, cells, connectivity)

RECURSIVE Components(_, _)
Components(cells, connectivity) ==
    IF cells = {} THEN 0
    ELSE LET p == CHOOSE p \in cells : TRUE
         IN  1 + Components(cells \ Reach({p}, cells, connectivity), connectivity)

\* the pixels of the box that are not of the region and that the outside of
\* the box does not reach
Enclosed(region, connectivity) ==
    LET outside == BoundingBox(region) \ region
    IN  outside \ Reach(outside \cap BoxBorder(BoundingBox(region)), outside, connectivity)

\* region["euler_number"].  skimage up to 0.18 returns 1 - the number of
\* components of filled_image != image, the holes being filled with the full
\* 3x3 structure; from 0.19 on it returns euler_number(image, 2): the
\* components by edges and corners less the holes by edges.
euler_number(region, skimage) ==
    IF skimage = "0.18"
    THEN 1 - Components(Enclosed(region, 2), 2)
    ELSE Components(region, 2) - Components(Enclosed(region, 1), 1)

\* line 13: the Euler number calculate_stats takes
region_euler_number(img, skimage) ==
    euler_number(first_region(label_of_nonzero(img)), skimage)

InitRegion ==
    /\ NoGenerator
    /\ \E img \in SquareImages(RegionRes), skimage \in {"0.18", "0.19"} :
         fn = [NoFn EXCEPT !.in = [img |-> img, skimage |-> skimage]]

RegionCall ==
    /\ pc = "helper" /\ fn.op = ""
    /\ fn' = [fn EXCEPT !.op = "regionprops",
                        !.out = region_euler_number(fn.in.img, fn.in.skimage)]
    /\ GeneratorUnchanged

NextRegion == RegionCall

SpecRegion == InitRegion /\ [][NextRegion]_vars

\* randomise_level_index is applied once; draws holds the order drawn and
\* after the argument as the call leaves it.
InitRelabel ==
    /\ NoGenerator
    /\ \E batch_x \in HelperBatches :
         fn = [op |-> "", in |-> [batch_x |-> batch_x],
               draws |-> <<>>, out |-> <<>>, after |-> <<>>, raised |-> ""]

RelabelCall ==
    /\ pc = "helper" /\ fn.op = ""
    /\ \E order \in LevelOrders(fn.in.batch_x) :
         fn' = [fn EXCEPT !.op = "randomise_level_index",
                          !.draws = order,
                          !.out = randomise_level_index(fn.in.batch_x, order),
                          !.after = randomise_level_index_call(fn.in.batch_x, order).arg]
    /\ GeneratorUnchanged

NextRelabel == RelabelCall

SpecRelabel == InitRelabel /\ [][NextRelabel]_vars

\* speckle_noise is applied once with its defaults; draws holds rand_mask and
\* rand_arr on it, and replacements the values the scaled rand_arr can hold
\* (lines 227-229).
InitSpeckle ==
    /\ NoGenerator
    /\ \E batch_x \in HelperBatches :
         fn = [op |-> "", in |-> [batch_x |-> batch_x],
               draws |-> <<>>, replacements |-> {}, out |-> <<>>, raised |-> ""]

SpeckleCall ==
    /\ pc = "helper" /\ fn.op = ""
    /\ LET num_uniques == Cardinality(BatchLevels(fn.in.batch_x))
       IN  \E rand_mask \in Masks(fn.in.batch_x) :
             \E rand_arr \in [rand_mask -> IF num_uniques > 1
                                           THEN RandintValues(fn.in.batch_x) ELSE {0}] :
                fn' = [fn EXCEPT
                         !.op = "speckle_noise",
                         !.draws = [rand_mask |-> rand_mask, rand_arr |-> rand_arr],
                         !.replacements =
                             IF num_uniques > 1
                             THEN { v * (num_uniques - 1) : v \in RandintValues(fn.in.batch_x) }
                             ELSE {},
                         !.out = speckle_noise(fn.in.batch_x, rand_mask, rand_arr)]
    /\ GeneratorUnchanged

NextSpeckle == SpeckleCall

SpecSpeckle == InitSpeckle /\ [][NextSpeckle]_vars

\* ------------------------------------- h5_iterator: fetches that interleave
\* the number of threads that fetch from one generator
NumThreads == 2
\* each thread makes at most this many fetches
MaxThreadFetches == 2

Threads == 1 .. NumThreads

\* The generators on which threads fetch: validation classifiers that leave
\* the images as they are stored.
ThreadScenarios ==
    { sc \in CursorScenarios : sc.args.network_type = "classifier" /\ sc.args.is_train = FALSE }

\* a thread outside __getitem__; reads, batch_x and batch_y are those of its
\* last call
IdleCall ==
    [pc |-> "idle", i |-> 0, batch_x |-> <<>>, batch_y |-> <<>>, reads |-> <<>>,
     raised |-> "", begun |-> 0]

\* fn.serial: the caller lets one fetch end before the next begins
InitThreads ==
    /\ \E sc \in ThreadScenarios :
         /\ directory = sc.directory
         /\ args = sc.args
    /\ caller = [validation |-> TRUE]
    /\ pc = "new"
    /\ self = NoInstance
    /\ raised = ""
    /\ ret = NoReturn
    /\ len_result = Unset
    /\ io = <<>>
    /\ last = ""
    /\ fetch_no = 0
    /\ pass_reads = <<>>
    /\ \E serial \in BOOLEAN :
         fn = [op |-> "threads", serial |-> serial, finished |-> 0,
               calls |-> [t \in Threads |-> IdleCall]]

ThreadFrame == UNCHANGED <<directory, args, caller, pc, raised, ret, len_result, io, last,
                           pass_reads>>

\* lines 127-128: a thread enters __getitem__ and allocates its batches
ThreadBegin(t) ==
    /\ pc = "ready" /\ self.is_validation_set
    /\ fn.calls[t].pc = "idle" /\ fn.calls[t].begun < MaxThreadFetches
    /\ fn.serial => \A u \in Threads : fn.calls[u].pc = "idle"
    /\ fn' = [fn EXCEPT !.calls[t] =
                 [pc |-> "loop", i |-> 1,
                  batch_x |-> [k \in 1 .. self.batch_size |->
                                  ConstImage(self.image_res, Uninit)],
                  batch_y |-> ZeroRows(self.batch_size, NumCats),
                  reads |-> <<>>, raised |-> "", begun |-> @.begun + 1]]
    /\ fetch_no' = fetch_no + 1
    /\ UNCHANGED self
    /\ ThreadFrame

\* one iteration of the loop of lines 131-145
ThreadRead(t) ==
    /\ fn.calls[t].pc = "loop" /\ fn.calls[t].i <= self.batch_size
    /\ LET call == fn.calls[t]
           read == ReadRecord(self, call.i, call.batch_x, call.batch_y)
       IN  /\ self' = Settle(read.s)
           /\ fn' = [fn EXCEPT !.calls[t] =
                        IF read.s.raised # ""
                        THEN [call EXCEPT !.pc = "idle", !.raised = read.s.raised]
                        ELSE [call EXCEPT !.i = @ + 1,
                                          !.batch_x = read.batch_x,
                                          !.batch_y = read.batch_y,
                                          !.reads = @ \o FetchedIds(
                                              SelectSeq(read.s.trace,
                                                        LAMBDA e : e[1] = "fetch"))]]
    /\ UNCHANGED fetch_no
    /\ ThreadFrame

\* lines 147-162 of a classifier without augmentation and binarisation
ThreadFinish(t) ==
    /\ fn.calls[t].pc = "loop" /\ fn.calls[t].i > self.batch_size
    /\ LET call == fn.calls[t]
       IN  \E r \in Returns(CountBatch(self), call.batch_x, call.batch_x, call.batch_y) :
              /\ self' = Settle(r.s)
              /\ fn' = [fn EXCEPT !.calls[t] = [call EXCEPT !.pc = "idle",
                                                            !.raised = r.s.raised],
                                  !.finished = IF r.s.raised = "" THEN @ + 1 ELSE @]
    /\ UNCHANGED fetch_no
    /\ ThreadFrame

NextThreads ==
    \/ Construct
    \/ SetValidation
    \/ \E t \in Threads : ThreadBegin(t)
    \/ \E t \in Threads : ThreadRead(t)
    \/ \E t \in Threads : ThreadFinish(t)

SpecThreads == InitThreads /\ [][NextThreads]_vars

\* ================================================================== claims
\* what the claims speak of, said directly of the directory
Ready == pc = "ready"
Batches == n_files \div self.batch_size                \* len()
PassRecords == Batches * self.batch_size               \* len() * batch_size
IdsFrom(first, count) == [k \in 1 .. count |-> directory[first + k].id]
FetchReads == FetchedIds(SelectSeq(io, LAMBDA e : e[1] = "fetch"))
WeightReads == FetchedIds(SelectSeq(io, LAMBDA e : e[1] = "weights"))
OneHot(category) ==
    [j \in 1 .. NumCats |-> IF output_categories_list[j] = category THEN 1 ELSE 0]
LabelsFrom(first, count) == [k \in 1 .. count |-> OneHot(directory[first + k].category)]
ImagesFrom(first, count) ==
    [k \in 1 .. count |-> resize_image(directory[first + k].image, self.image_res)]
\* the position in its pass of the fetch just made, from 0
PassIndex == (fetch_no - 1) % Batches
AfterFetch == Ready /\ last = "__getitem__"

\* A generator that was constructed has at least one batch: the class-weight
\* computation refuses a sample in which a category does not occur.
ConstructedHasBatches == Ready => Batches >= 1

\* C1: for a generator that is not the training set, the len() fetches of a
\* pass deliver len()*batch_size records, each of the first len()*batch_size
\* records of the scan exactly once.
C1_PassDeliversEachRecordOnce ==
    (AfterFetch /\ self.is_training_set = FALSE /\ fetch_no % Batches = 0)
    => /\ raised = ""
       /\ Len(pass_reads) = PassRecords
       /\ \A k \in 1 .. PassRecords :
            Cardinality({ j \in DOMAIN pass_reads : pass_reads[j] = directory[k].id }) = 1

C1_Witness ==
    /\ AfterFetch /\ self.is_training_set = FALSE
    /\ self.batch_size = 2 /\ Batches = 2 /\ fetch_no = 2

\* C2: for a generator that is not the training set no fetch raises; the fetch
\* that ends a pass leaves the cursor rewound and the batch counter at 0, and
\* every fetch returns the batch of its place in the pass, so fetch len()+1
\* returns the records of fetch 1, pass after pass, with no on_epoch_end.
C2_FetchAfterPassRewinds ==
    (AfterFetch /\ self.is_training_set = FALSE)
    => /\ raised = ""
       /\ FetchReads = IdsFrom(PassIndex * self.batch_size, self.batch_size)
       /\ ret.y = LabelsFrom(PassIndex * self.batch_size, self.batch_size)
       /\ (fetch_no % Batches = 0 =>
              self.file_iterator = 0 /\ self.batches_counter = 0)

C2_Witness ==
    /\ AfterFetch /\ self.is_training_set = FALSE
    /\ Batches = 2 /\ fetch_no = 3
    /\ FetchReads = IdsFrom(0, self.batch_size)

\* C3: in classifier mode on a validation set, after the len() fetches of a
\* pass the rows [k*batch_size, (k+1)*batch_size) of y_true are the labels the
\* k-th fetch returned and the same rows of x_true are its images.
C3_AccumulatorHoldsPass ==
    (AfterFetch /\ self.is_training_set = FALSE /\ self.is_validation_set
       /\ self.network_type = "classifier" /\ fetch_no = Batches)
    => /\ self.y_true = LabelsFrom(0, PassRecords)
       /\ self.x_true = ImagesFrom(0, PassRecords)

\* the half of C3 that the code keeps: the images
C3_ImagesHeld ==
    (AfterFetch /\ self.is_training_set = FALSE /\ self.is_validation_set
       /\ self.network_type = "classifier" /\ fetch_no = Batches)
    => self.x_true = ImagesFrom(0, PassRecords)

\* C4: __len__ returns floor(n / batch_size) whatever the scan position and
\* the batch counter, and leaves every attribute as it was.
C4_LenIsPure ==
    [][ last' = "__len__" =>
          /\ len_result' = n_files \div self.batch_size
          /\ self' = self ]_vars

C4_Witness ==
    /\ Ready /\ last = "__len__" /\ len_result = 2
    /\ self.file_iterator > 0 /\ self.batches_counter > 0

\* C5: construction, with or without imsize, leaves the cursor at the start of
\* the scan and the batch counter at 0, and the first fetch reads the records
\* of the scan from the first one on.
C5_ConstructionRewinds ==
    /\ (Ready /\ last = "__init__")
         => (self.file_iterator = 0 /\ self.batches_counter = 0)
    /\ (AfterFetch /\ fetch_no = 1)
         => /\ FetchReads = IdsFrom(0, Len(FetchReads))
            /\ raised = "" => Len(FetchReads) = self.batch_size

C5_Witness ==
    /\ AfterFetch /\ fetch_no = 1 /\ raised = ""
    /\ args.imsize = 0 /\ self.batch_size = 2
    /\ FetchReads = IdsFrom(0, 2)

\* C6: the class-weight scan of a construction that succeeds reads
\* min(len()*batch_size, cap) records for the training set and
\* len()*batch_size records otherwise, from the first record on; that is never
\* more than the directory holds, and the scan never runs off its end.
ScanLength ==
    IF args.is_train
    THEN (IF (n_files \div args.batch_size) * args.batch_size < WeightSampleCap
          THEN (n_files \div args.batch_size) * args.batch_size
          ELSE WeightSampleCap)
    ELSE (n_files \div args.batch_size) * args.batch_size

C6_WeightScanIsClamped ==
    (last = "__init__" /\ args.network_type \in {"classifier", "autoencoder"})
    => /\ ScanLength <= n_files
       /\ Len(WeightReads) <= ScanLength
       /\ WeightReads = IdsFrom(0, Len(WeightReads))
       /\ Ready => Len(WeightReads) = ScanLength
       /\ raised = "StopIteration" => (n_files = 0 /\ WeightReads = <<>>)

C6_Witness ==
    /\ Ready /\ last = "__init__" /\ args.is_train
    /\ Len(WeightReads) = 2 /\ 2 < WeightSampleCap

\* C7: on_epoch_end rewinds the scan and zeroes the batch counter and changes
\* nothing else: not the accumulators, the class weights, the mode flags or
\* the configuration.
C7_EpochEndOnlyRewinds ==
    [][ last' = "on_epoch_end" =>
          /\ self' = [self EXCEPT !.file_iterator = 0, !.batches_counter = 0]
          /\ io' = << <<"scandir", 0>> >>
          /\ UNCHANGED <<args, directory, pc>> ]_vars

C7_Witness ==
    /\ Ready /\ last = "on_epoch_end"
    /\ self.is_validation_set
    /\ self.y_true # ZeroRows(PassRecords, NumCats)
    /\ Batches >= 2

\* C8: a network_type other than "classifier" and "autoencoder" makes the
\* construction fail before the directory is scanned or a record is read, and
\* no fetch is ever made on such a generator.
C8_UnknownNetworkTypeRefused ==
    (args.network_type \notin {"classifier", "autoencoder"})
    => /\ pc # "ready"
       /\ last \in {"", "__init__"}
       /\ last = "__init__" =>
            /\ pc = "failed" /\ raised = "AssertionError"
            /\ io = <<>>
            /\ self.file_iterator = Unset

C8_Witness ==
    /\ pc = "failed" /\ raised = "AssertionError" /\ n_files >= 2

\* C9: in autoencoder mode the target a fetch returns is the batch as it was
\* before speckle_noise corrupted the input.
C9_TargetIsClean ==
    (AfterFetch /\ self.network_type = "autoencoder" /\ raised = "")
    => ret.y = ret.clean

\* what the code does instead: the target is the corrupted input itself
C9_TargetIsInput ==
    (AfterFetch /\ self.network_type = "autoencoder" /\ raised = "")
    => ret.y = ret.x

C9_Corrupted ==
    /\ AfterFetch /\ self.network_type = "autoencoder" /\ raised = ""
    /\ ret.x # ret.clean

\* C10: _patch_binarisation of CNN_training takes every image of exactly
\* three levels to an image of exactly two levels, the two most frequent of
\* the input, with no pixel of the least-common level left.
C10_PatchLeavesTwoMostFrequent ==
    (fn.op = "_patch_binarisation" /\ fn.raised = "")
    => \A i \in DOMAIN fn.in :
         Cardinality(ImageLevels(fn.in[i])) = 3
         => /\ Cardinality(ImageLevels(fn.out[i])) = 2
            /\ \E least \in ImageLevels(fn.in[i]) :
                 /\ \A w \in ImageLevels(fn.in[i]) :
                      CountOf(fn.in[i], least) <= CountOf(fn.in[i], w)
                 /\ ImageLevels(fn.out[i]) = ImageLevels(fn.in[i]) \ {least}

C10_LeastLevelLeft ==
    /\ fn.op = "_patch_binarisation" /\ fn.raised = ""
    /\ Cardinality(ImageLevels(fn.in[1])) = 3
    /\ Cardinality(ImageLevels(fn.out[1])) = 3

\* C11: every row of the label matrix a classifier fetch returns is one-hot:
\* row i has 1 at the index of the category of the i-th record read and 0 at
\* every other index.
C11_LabelsAreOneHot ==
    (AfterFetch /\ self.network_type = "classifier" /\ raised = "")
    => /\ Len(ret.y) = self.batch_size
       /\ Len(FetchReads) = self.batch_size
       /\ \A i \in 1 .. self.batch_size :
            \A j \in 1 .. NumCats :
               ret.y[i][j] =
                  IF output_categories_list[j] = directory[FetchReads[i]].category
                  THEN 1 ELSE 0

C11_Witness ==
    /\ AfterFetch /\ self.network_type = "classifier" /\ raised = ""
    /\ self.batch_size = 2
    /\ ret.y = << <<0, 1>>, <<1, 0>> >>

\* C12: a fetch that reads a record whose category is not in
\* output_categories_list raises the lookup error: it returns nothing, the
\* record of the unknown category is the last record it read, and that record
\* was read where it stood in the scan.
UnknownCategory(id) == directory[id].category \notin Range(output_categories_list)

C12_UnknownCategoryAborts ==
    (last = "__getitem__" /\ \E k \in DOMAIN FetchReads : UnknownCategory(FetchReads[k]))
    => /\ raised = "ValueError"
       /\ ret = NoReturn
       /\ UnknownCategory(FetchReads[Len(FetchReads)])
       /\ \A k \in 1 .. Len(FetchReads) - 1 : ~UnknownCategory(FetchReads[k])
       /\ \A k \in 1 .. Len(FetchReads) - 1 : FetchReads[k + 1] = FetchReads[k] + 1
       /\ self.file_iterator = FetchReads[Len(FetchReads)]

\* the lookup error of a fetch has no other cause
C12_LookupErrorOnlyThen ==
    (last = "__getitem__" /\ raised = "ValueError")
    => (FetchReads # <<>> /\ UnknownCategory(FetchReads[Len(FetchReads)]))

C12_Witness ==
    /\ last = "__getitem__" /\ raised = "ValueError" /\ ret = NoReturn
    /\ self.batch_size = 2 /\ Len(FetchReads) = 2
    /\ UnknownCategory(FetchReads[2])

\* C13: power_resize of an s-by-s image to k*s, k >= 1, returns the k*s-by-k*s
\* image whose pixel (i, j) is pixel (i div k, j div k) of the source; for
\* k = 1 it returns the source.
C13_ResizeReplicatesBlocks ==
    (fn.op = "power_resize" /\ fn.in.newsize >= Len(fn.in.image)
       /\ fn.in.newsize % Len(fn.in.image) = 0)
    => LET k == fn.in.newsize \div Len(fn.in.image)
       IN  /\ fn.raised = ""
           /\ Len(fn.out) = fn.in.newsize
           /\ \A i \in 0 .. fn.in.newsize - 1 :
                /\ Len(fn.out[i + 1]) = fn.in.newsize
                /\ \A j \in 0 .. fn.in.newsize - 1 :
                     fn.out[i + 1][j + 1] = fn.in.image[(i \div k) + 1][(j \div k) + 1]
           /\ k = 1 => fn.out = fn.in.image

C13_Witness ==
    /\ fn.op = "power_resize" /\ fn.raised = ""
    /\ fn.in.image = << <<0, 1>>, <<2, 0>> >> /\ fn.in.newsize = 4
    /\ fn.out = << <<0, 0, 1, 1>>, <<0, 0, 1, 1>>, <<2, 2, 0, 0>>, <<2, 2, 0, 0>> >>

\* C14: power_resize raises, and returns no image, for every target size that
\* is not a positive integer multiple of the source size.
PositiveMultiple(newsize, size) == newsize >= size /\ newsize % size = 0

C14_NonMultipleRefused ==
    (fn.op = "power_resize" /\ ~PositiveMultiple(fn.in.newsize, Len(fn.in.image)))
    => fn.raised # ""

\* what the code keeps of C14: every such target size other than 0 is refused
C14_NonZeroNonMultipleRefused ==
    (fn.op = "power_resize" /\ ~PositiveMultiple(fn.in.newsize, Len(fn.in.image))
       /\ fn.in.newsize # 0)
    => (fn.raised # "" /\ fn.out = <<>>)

C14_EmptyImageReturned ==
    /\ fn.op = "power_resize" /\ fn.in.newsize = 0
    /\ fn.raised = "" /\ fn.out = <<>>

\* C19: two flips of a batch along the same axis, whatever augment_inds each of
\* them draws, leave every image of the batch as it was.
C19_FlipTwiceRestores ==
    (fn.op = "flip" /\ Len(fn.draws) = 2) => fn.out = fn.in.batch_x

\* one flip reverses every image of the batch along the axis
C19_FlipOnceReverses ==
    (fn.op = "flip" /\ Len(fn.draws) = 1)
    => \A i \in DOMAIN fn.out : fn.out[i] = FlipImage(fn.in.batch_x[i], fn.in.axis)

C19_Witness ==
    /\ fn.op = "flip" /\ Len(fn.draws) = 2
    /\ Len(fn.in.batch_x) = 2
    /\ fn.draws[1] # fn.draws[2]
    /\ \A i \in 1 .. 2 : FlipImage(fn.in.batch_x[i], fn.in.axis) # fn.in.batch_x[i]
    /\ fn.out = fn.in.batch_x

\* C20: circ_shift moves pixel (r, c) of image i to pixel
\* ((r + dr) mod image_res, (c + dc) mod image_res) of image i, for the pair
\* (dr, dc) drawn for that image, so every image keeps its multiset of values.
C20_ShiftIsToroidal ==
    (fn.op = "circ_shift")
    => /\ DOMAIN fn.out = DOMAIN fn.in.batch_x
       /\ \A i \in DOMAIN fn.in.batch_x :
            /\ fn.draws[i][1] \in 0 .. SrcRes - 1 /\ fn.draws[i][2] \in 0 .. SrcRes - 1
            /\ \A r, c \in 0 .. SrcRes - 1 :
                 fn.out[i][((r + fn.draws[i][1]) % SrcRes) + 1]
                          [((c + fn.draws[i][2]) % SrcRes) + 1]
                    = fn.in.batch_x[i][r + 1][c + 1]
            /\ \A v \in Levels : CountOf(fn.out[i], v) = CountOf(fn.in.batch_x[i], v)

C20_Witness ==
    /\ fn.op = "circ_shift" /\ Len(fn.in.batch_x) = 2
    /\ fn.draws[1] = <<1, 0>> /\ fn.draws[2] = <<0, 1>>
    /\ fn.in.batch_x[1] # fn.in.batch_x[2]
    /\ fn.out[1] # fn.in.batch_x[1] /\ fn.out[2] # fn.in.batch_x[2]

\* what the claims on calculate_stats speak of
Substrate == fn.in.sums[1]
Liquid == fn.in.sums[2]
Particles == fn.in.sums[3]
LiquidDominates == Liquid >= Substrate /\ Liquid >= Particles /\ Liquid > Substrate
AfterStats == fn.op = "calculate_stats"

\* C15: when the liquid is the most frequent value, calculate_stats returns
\* "hole" if and only if substrate pixels / image_res^2 >= 0.02, and "liquid"
\* otherwise.
C15_HoleFromTwoPercent ==
    (AfterStats /\ LiquidDominates)
    => /\ fn.raised = ""
       /\ fn.out \in {"hole", "liquid"}
       /\ fn.out = "hole" <=> 100 * Substrate >= 2 * fn.in.image_res * fn.in.image_res

C15_Witness ==
    /\ AfterStats /\ fn.in.image_res = 10
    /\ Substrate = 3 /\ Liquid = 97 /\ Particles = 0 /\ fn.in.euler_number = 1
    /\ fn.out = "hole"

\* the other half of the example of C15: one substrate pixel in 100
C15_OnePercentIsLiquid ==
    (AfterStats /\ fn.in.image_res = 10 /\ Substrate = 1 /\ Liquid = 99)
    => fn.out = "liquid"

\* C16: when the liquid does not dominate and there are P > 0 particle
\* pixels, calculate_stats returns, for R = euler_number / P, "cellular" iff
\* R >= -0.00025, "labyrinth" iff -0.01 <= R < -0.001, "island" iff
\* R <= -0.03, and "none" for every other R.
C16_EulerBands ==
    (AfterStats /\ ~LiquidDominates /\ Particles > 0)
    => LET E == fn.in.euler_number
           P == Particles
           cellular == 100000 * E >= (0 - 25) * P
           labyrinth == 100 * E >= 0 - P /\ 1000 * E < 0 - P
           island == 100 * E <= (0 - 3) * P
       IN  /\ fn.raised = ""
           /\ fn.out = "cellular" <=> cellular
           /\ fn.out = "labyrinth" <=> labyrinth
           /\ fn.out = "island" <=> island
           /\ fn.out = "none" <=> ~(cellular \/ labyrinth \/ island)
           /\ fn.out \in {"cellular", "labyrinth", "island", "none"}

C16_Witness ==
    /\ AfterStats /\ ~LiquidDominates
    /\ fn.in.euler_number = 0 - 1 /\ Particles = 2000
    /\ fn.out = "none"

\* C17: when the liquid does not dominate and the image has no particle
\* pixel, calculate_stats raises or returns "none".
C17_NoParticlesNoCategory ==
    (AfterStats /\ ~LiquidDominates /\ Particles = 0)
    => (fn.raised # "" \/ fn.out = "none")

C17_AllSubstrateIsCellular ==
    /\ AfterStats /\ fn.raised = ""
    /\ Substrate = fn.in.image_res * fn.in.image_res /\ fn.in.euler_number = 1
    /\ fn.out = "cellular"

\* C18: calculate_normalised_stats of a two-valued image whose closed image
\* has no background component (it is 1 everywhere, H1 = 0) raises, and a
\* triple that is returned never has SIE with a zero denominator.
ClosedHasNoBackground(img) ==
    \A p \in Pos(Len(img)) : closing(img)[p[1]][p[2]] = 1

C18_NoBackgroundRaises ==
    (fn.op = "calculate_normalised_stats")
    => /\ (Cardinality(ImageLevels(fn.in)) = 2 /\ ClosedHasNoBackground(fn.in))
            => (fn.raised # "" /\ fn.out = <<>>)
       /\ fn.raised = "" => fn.out.SIE[2] > 0

C18_Witness ==
    /\ fn.op = "calculate_normalised_stats"
    /\ fn.in = << <<1, 1, 1>>, <<1, 0, 1>>, <<1, 1, 1>> >>
    /\ fn.raised = "IndexError" /\ fn.out = <<>>

\* C21: the Euler number calculate_stats takes is that of the mask of the
\* nonzero pixels of the image, also when the image has zero pixels.
NonzeroMask(img) == { p \in Pos(Len(img)) : img[p[1]][p[2]] # 0 }
ZeroMask(img) == { p \in Pos(Len(img)) : img[p[1]][p[2]] = 0 }

C21_EulerOfNonzeroMask ==
    (fn.op = "regionprops" /\ NonzeroMask(fn.in.img) # {})
    => fn.out = euler_number(NonzeroMask(fn.in.img), fn.in.skimage)

\* what the code takes instead: the Euler number of the zero pixels whenever
\* the image has one
C21_EulerOfZeroMask ==
    (fn.op = "regionprops" /\ ZeroMask(fn.in.img) # {})
    => fn.out = euler_number(ZeroMask(fn.in.img), fn.in.skimage)

C21_RingAroundSubstrate ==
    /\ fn.op = "regionprops"
    /\ fn.in.img = << <<2, 2, 2>>, <<2, 0, 2>>, <<2, 2, 2>> >>
    /\ fn.out = 1
    /\ euler_number(NonzeroMask(fn.in.img), fn.in.skimage) = 0

\* C22: a classifier fetch without binarisation returns the resized record
\* images as they are when is_train is False, whatever the augmentation flags
\* are; when is_train is True it returns them after the enabled steps in the
\* order vertical flip, horizontal flip, circular shift, level randomisation,
\* speckle noise.  An autoencoder fetch without is_train returns them with
\* the speckle noise of its input.
PlainFetch == AfterFetch /\ raised = "" /\ self.force_binarisation = FALSE
NoShift(batch_x) == [i \in DOMAIN batch_x |-> <<0, 0>>]

AugmentedInOrder(resized, x) ==
    \E v \in (IF self.vflip THEN IndexDraws(self.batch_size) ELSE {<<>>}) :
    \E h \in (IF self.hflip THEN IndexDraws(self.batch_size) ELSE {<<>>}) :
    \E sh \in (IF self.circshift THEN ShiftDraws(resized, self.image_res)
               ELSE {NoShift(resized)}) :
       LET shifted == circ_shift(flip(flip(resized, 1, v), 2, h), sh)
       IN  \E relabelled \in (IF self.randomise_levels
                              THEN { randomise_level_index(shifted, o)
                                     : o \in LevelOrders(shifted) }
                              ELSE {shifted}) :
              x \in (IF self.xnoise THEN SpeckleResults(relabelled) ELSE {relabelled})

C23_RelabelIsOneBijection ==
    (fn.op = "randomise_level_index")
    => /\ \A p, q \in BatchPos(fn.in.batch_x) :
            (fn.out[p[1]][p[2]][p[3]] = fn.out[q[1]][q[2]][q[3]])
            <=> (fn.in.batch_x[p[1]][p[2]][p[3]] = fn.in.batch_x[q[1]][q[2]][q[3]])
       /\ BatchLevels(fn.out) = 0 .. (Cardinality(BatchLevels(fn.in.batch_x)) - 1)
       /\ fn.after = fn.in.batch_x

C23_Witness ==
    /\ fn.op = "randomise_level_index"
    /\ Len(fn.in.batch_x) = 2
    /\ fn.in.batch_x[1] = ConstImage(SrcRes, 1)
    /\ Cardinality(ImageLevels(fn.in.batch_x[2])) = 3
    /\ fn.draws = <<2, 0, 1>>
    /\ fn.out[1] = ConstImage(SrcRes, 2)

\* C24: in speckle_noise on a batch of k > 1 levels 0..k-1 every one of the k
\* levels is a value a masked pixel may be given, and the pixels outside the
\* mask keep their value.
SpeckledLevels ==
    /\ fn.op = "speckle_noise"
    /\ Cardinality(BatchLevels(fn.in.batch_x)) > 1
    /\ BatchLevels(fn.in.batch_x) = 0 .. (Cardinality(BatchLevels(fn.in.batch_x)) - 1)

C24_EveryLevelMayReplace ==
    SpeckledLevels
    => /\ fn.replacements = BatchLevels(fn.in.batch_x)
       /\ \A p \in BatchPos(fn.in.batch_x) \ fn.draws.rand_mask :
            fn.out[p[1]][p[2]][p[3]] = fn.in.batch_x[p[1]][p[2]][p[3]]

\* what the code does: a masked pixel is given 0 or, of three levels, 2, never
\* the level 1; the pixels outside the mask keep their value
C24_MaskedPixelsGetEnds ==
    SpeckledLevels
    => /\ \A p \in fn.draws.rand_mask :
            fn.out[p[1]][p[2]][p[3]] \in
               (IF Cardinality(BatchLevels(fn.in.batch_x)) = 3 THEN {0, 2} ELSE {0})
       /\ \A p \in BatchPos(fn.in.batch_x) \ fn.draws.rand_mask :
            fn.out[p[1]][p[2]][p[3]] = fn.in.batch_x[p[1]][p[2]][p[3]]

C24_LiquidNeverDrawn ==
    /\ SpeckledLevels
    /\ BatchLevels(fn.in.batch_x) = {0, 1, 2}
    /\ fn.draws.rand_mask # {}
    /\ fn.replacements = {0, 2}

\* C25: when the fetches of a validation generator are made one after the
\* other, every fetch returns batch_size records that follow each other in
\* the scan and every row of x_true is written in a pass; when two fetches
\* interleave record by record, a fetch can return records that do not follow
\* each other and a pass can leave rows of x_true unwritten.
Contiguous(reads) == \A k \in 1 .. Len(reads) - 1 : reads[k + 1] = reads[k] + 1
AllIdle == \A t \in Threads : fn.calls[t].pc = "idle"
Unwritten == { k \in DOMAIN self.x_true : self.x_true[k] = ConstImage(self.image_res, 0) }

C25_SerialFetchesAreSafe ==
    (fn.op = "threads" /\ fn.serial /\ Ready)
    => /\ \A t \in Threads :
            /\ fn.calls[t].raised = ""
            /\ Contiguous(fn.calls[t].reads)
            /\ (fn.calls[t].pc = "idle" /\ fn.calls[t].begun > 0)
                 => /\ Len(fn.calls[t].reads) = self.batch_size
                    /\ (fn.calls[t].reads[1] - 1) % self.batch_size = 0
       /\ (AllIdle /\ fn.finished > 0 /\ fn.finished % Batches = 0) => Unwritten = {}

C25_Witness ==
    /\ fn.op = "threads" /\ ~fn.serial /\ Ready /\ AllIdle
    /\ \A t \in Threads : fn.calls[t].raised = ""
    /\ self.batch_size = 2 /\ Batches = 2 /\ fn.finished = 2
    /\ fn.calls[1].reads = <<1, 3>> /\ fn.calls[2].reads = <<2, 4>>
    /\ Unwritten = {3, 4}

\* the same generator and the same number of fetches, made one after the other
C25_SerialWitness ==
    /\ fn.op = "threads" /\ fn.serial /\ Ready /\ AllIdle
    /\ self.batch_size = 2 /\ Batches = 2 /\ fn.finished = 2
    /\ fn.calls[1].reads = <<1, 2>> /\ fn.calls[2].reads = <<3, 4>>
    /\ Unwritten = {}

\* C26: on a training generator none of the len() fetches made after a reset
\* runs off the end of the scan; every fetch made after len() fetches have
\* returned, with no on_epoch_end in between, raises: StopIteration, or the
\* lookup error when one of the fewer than batch_size records that remain has
\* an unknown category; the first fetch after on_epoch_end starts at the
\* first record again and does not run off the end.
FetchStep == Ready /\ last' = "__getitem__" /\ fetch_no' = fetch_no + 1
NextReads == FetchedIds(SelectSeq(io', LAMBDA e : e[1] = "fetch"))

C26_TrainingPassThenExhausted ==
    [][ (FetchStep /\ self.is_training_set)
        => /\ fetch_no < Batches => raised' # "StopIteration"
           /\ self.batches_counter >= Batches
                => /\ raised' \in {"StopIteration", "ValueError"}
                   /\ n_files - self.file_iterator < self.batch_size
                   /\ self'.batches_counter = self.batches_counter
                   /\ raised' = "ValueError"
                        => UnknownCategory(NextReads[Len(NextReads)])
                   /\ raised' = "StopIteration" => self'.file_iterator = n_files
           /\ last = "on_epoch_end"
                => /\ raised' # "StopIteration"
                   /\ NextReads = IdsFrom(0, Len(NextReads))
                   /\ raised' = "" => Len(NextReads) = self.batch_size ]_vars

\* C26 as it was stated: the fetch after the len() fetches always raises
\* StopIteration
C26_AlwaysExhaustedScan ==
    [][ (FetchStep /\ self.is_training_set /\ self.batches_counter >= Batches)
        => raised' = "StopIteration" ]_vars

C26_Witness ==
    /\ AfterFetch /\ self.is_training_set /\ raised = "StopIteration"
    /\ self.batch_size = 2 /\ n_files = 3 /\ fetch_no = Batches + 2
    /\ self.batches_counter = Batches /\ self.file_iterator = n_files

\* the remaining record has an unknown category: the further fetch raises the
\* lookup error
C26_LookupErrorInstead ==
    /\ AfterFetch /\ self.is_training_set /\ raised = "ValueError"
    /\ self.batch_size = 2 /\ n_files = 3 /\ fetch_no = Batches + 1
    /\ self.batches_counter = Batches

\* C27: idx has no effect on a fetch.  Whatever idx is, the fetch has the same
\* outcomes; a fetch that returns, no fetch having failed since the last
\* reset, returns the records batches_counter * batch_size + 1 ..
\* (batches_counter + 1) * batch_size of the scan; and the cursor and the batch
\* counter it leaves are those of the number of fetches made.
NoneFailed == self.is_training_set => self.batches_counter = fetch_no

AccumulatorWrites == SelectSeq(io, LAMBDA e : e[1] \in {"x_true", "y_true"})

C28_CounterStaysInRange ==
    (Ready /\ self.is_training_set = FALSE)
    => /\ Batches >= 1
       /\ 0 <= self.batches_counter /\ self.batches_counter < Batches
       /\ Len(self.x_true) = PassRecords /\ Len(self.y_true) = PassRecords
       /\ \A k \in DOMAIN AccumulatorWrites :
            /\ 0 <= AccumulatorWrites[k][2]
            /\ AccumulatorWrites[k][2] % self.batch_size = 0
            /\ AccumulatorWrites[k][2] + self.batch_size <= Len(self[AccumulatorWrites[k][1]])

C28_Witness ==
    /\ AfterFetch /\ self.is_training_set = FALSE /\ self.is_validation_set
    /\ self.batch_size = 2 /\ Batches = 2 /\ fetch_no = 2
    /\ self.batches_counter = 0
    /\ AccumulatorWrites =
         << <<"x_true", 2>>, <<"y_true", 2>>, <<"x_true", 2>>, <<"y_true", 2>>, <<"y_true", 0>> >>

\* C29: as long as is_validation_set is False, x_true and y_true hold the
\* zeros they were given at construction, whatever fetches, on_epoch_end
\* calls and __len__ calls are made.
C29_AccumulatorsUntouched ==
    (Ready /\ self.is_validation_set = FALSE)
    => /\ self.x_true = ZeroImages(PassRecords, self.image_res)
       /\ self.y_true = ZeroRows(PassRecords, NumCats)
       /\ AccumulatorWrites = <<>>

C29_Witness ==
    /\ AfterFetch /\ raised = "" /\ self.is_validation_set = FALSE
    /\ self.network_type = "autoencoder" /\ self.is_training_set = FALSE
    /\ fetch_no = 2 /\ PassRecords = 2
    /\ ret.x # <<>>
    /\ self.x_true = ZeroImages(2, self.image_res)

\* C30: the construction of a generator that is not the training set raises
\* the lookup error when one of the first len() * batch_size records has an
\* unknown category, so no fetch on such a generator raises it; a training
\* generator over more records than the cap of the class-weight scan can be
\* constructed and raise it in a later fetch.
ValidNetworkType == args.network_type \in {"classifier", "autoencoder"}
UnknownInPass ==
    { k \in 1 .. (n_files \div args.batch_size) * args.batch_size : UnknownCategory(k) }

C30_LookupErrorAtConstruction ==
    /\ (last = "__init__" /\ ValidNetworkType /\ args.is_train = FALSE /\ UnknownInPass # {})
         => /\ pc = "failed" /\ raised = "ValueError"
            /\ WeightReads = IdsFrom(0, Min(UnknownInPass))
    /\ (last = "__getitem__" /\ self.is_training_set = FALSE) => raised # "ValueError"

C30_Witness ==
    /\ last = "__getitem__" /\ self.is_training_set /\ raised = "ValueError"
    /\ n_files > WeightSampleCap
    /\ self.batch_size = 1 /\ fetch_no = n_files
    /\ UnknownCategory(n_files)
    /\ \A k \in 1 .. n_files - 1 : ~UnknownCategory(k)

\* the other generator over the same directory is refused at construction
C30_RefusedAtConstruction ==
    /\ last = "__init__" /\ pc = "failed" /\ raised = "ValueError"
    /\ args.is_train = FALSE /\ args.batch_size = 1
    /\ n_files > WeightSampleCap
    /\ UnknownInPass = {n_files}
    /\ WeightReads = IdsFrom(0, n_files)

====
